---- MODULE Spec2Model ----
(***************************************************************************)
(* A model of the layered cache (package cache of biu7/layered-cache):     *)
(* the orchestrator LayeredCache with its two tiers (storage.Memory, L1,   *)
(* and storage.Remote, L2), the per-call options, the singleflight group   *)
(* that coalesces loads, and the callers' goroutines.                      *)
(*                                                                         *)
(* Byte slices and Go strings are TLA+ strings.  A Go value of type any is *)
(* a record [t, v]: its dynamic type and its content.  A nil pointer       *)
(* option is the empty sequence <<>>, a set one is <<x>>.  A Go map is a   *)
(* function whose DOMAIN is the set of keys present.                       *)
(***************************************************************************)
EXTENDS Integers, Sequences, FiniteSets, TLC

(***************************************************************************)
(* Bounds of the model.                                                    *)
(***************************************************************************)
\* Number of calls issued in one behaviour.
MaxOps == 2
\* The goroutines calling the cache concurrently: two, the least number that
\* can contend for one coalescing key.
Procs == {1, 2}
\* The goroutine of the behaviours in which calls do not overlap.
SeqProcs == {1}

(***************************************************************************)
(* Keys, byte values, errors.                                              *)
(***************************************************************************)
Keys == {"a", "b", "c"}

notFoundPlaceholder == "__CACHE_NOT_FOUND__"

nil == "nil"
ErrNotFound == "key not found"
ErrInvalidMemoryExpireTime == "invalid memory expire time"
ErrInvalidRedisExpireTime == "invalid redis expire time"
ErrInvalidCacheNotFondTTL == "invalid cache miss ttl"
\* An error of the remote store other than not-found (I/O, cancelled context).
ErrRemote == "remote: i/o error"
\* An error of a caller's loader other than not-found.
ErrLoader == "loader: failed"
\* Another one.
ErrLoaderTimeout == "loader: timeout"
\* An error of the serializer decoding bytes that are not an encoding.
ErrDecode == "serializer: cannot decode"
\* result.([]byte) / batchResult.(map[string][]byte) on a value of another type.
Panic == "panic: interface conversion"

\* A test that takes every error for not-found.
IsNotFound_any(err) == err # nil

IsNotFound(err) == err # nil /\ err = ErrNotFound

\* A read that takes no entry for the absence marker.
IsPlaceholder_never(data) == FALSE

\* string(data) == notFoundPlaceholder: the bytes read from a tier are the marker.
IsPlaceholder(data) == data = notFoundPlaceholder

(***************************************************************************)
(* Go values and their encoding.                                           *)
(***************************************************************************)
NilValue == [t |-> "nil", v |-> ""]
Str(s) == [t |-> "string", v |-> s]
Raw(s) == [t |-> "bytes", v |-> s]
Obj(s) == [t |-> "obj", v |-> s]

\* The contents of the struct values the serializer encodes.
ObjContents == {"o1"}

\* serializer.Marshal of a struct value: its JSON text.
JsonMarshal(s) == "{" \o s \o "}"

\* serializer.Unmarshal: the struct content a JSON text decodes to, <<>> if none.
JsonUnmarshal(b) ==
    LET hits == {s \in ObjContents : JsonMarshal(s) = b}
    IN  IF hits = {} THEN <<>> ELSE <<CHOOSE s \in hits : TRUE>>

\* LayeredCache.Marshal: []byte and string pass through, the rest is serialized.
Marshal(val) ==
    CASE val.t = "bytes"  -> [err |-> nil, data |-> val.v]
      [] val.t = "string" -> [err |-> nil, data |-> val.v]
      [] OTHER            -> [err |-> nil, data |-> JsonMarshal(val.v)]

\* LayeredCache.Unmarshal into the caller's target (a pointer: target is what it
\* points to before the call, val what it points to after).
Unmarshal(b, target) ==
    IF Len(b) = 0 THEN [err |-> nil, val |-> target]
    ELSE CASE target.t = "bytes"  -> [err |-> nil, val |-> Raw(b)]
           [] target.t = "string" -> [err |-> nil, val |-> Str(b)]
           [] OTHER ->
                IF JsonUnmarshal(b) = <<>>
                THEN [err |-> ErrDecode, val |-> target]
                ELSE [err |-> nil, val |-> Obj(JsonUnmarshal(b)[1])]

(***************************************************************************)
(* Maps.                                                                   *)
(***************************************************************************)
EmptyMap == <<>>
Put(m, k, x) == [y \in DOMAIN m \cup {k} |-> IF y = k THEN x ELSE m[y]]
Remove(m, k) == [y \in DOMAIN m \ {k} |-> m[y]]
\* m with every entry of n written over it.
Merge(m, n) == [y \in DOMAIN m \cup DOMAIN n |-> IF y \in DOMAIN n THEN n[y] ELSE m[y]]
Restrict(m, S) == [y \in DOMAIN m \cap S |-> m[y]]
Range(s) == {s[i] : i \in DOMAIN s}
\* A selection that keeps every element.
SelectKeys_all(s, S) == s

\* The subsequence of s of the elements that are in S, in s's order.
RECURSIVE SelectKeys(_, _)
SelectKeys(s, S) ==
    IF s = <<>> THEN <<>>
    ELSE IF Head(s) \in S THEN <<Head(s)>> \o SelectKeys(Tail(s), S)
                          ELSE SelectKeys(Tail(s), S)

(***************************************************************************)
(* Construction options (options.go) and per-call options (options_ops.go).*)
(* Durations are counted in minutes.                                       *)
(***************************************************************************)
\* newOptions: the defaults of a cache built without WithConfigDefaultTTL and
\* WithConfigDefaultCacheNotFound.
DefaultMemoryTTL == 5
DefaultRemoteTTL == 20160
DefaultCacheNotFoundTTL == 1

\* The option sets NewCache is called with: which adapters are given, and the
\* default absence-caching flag.
Options ==
    [memoryAdapter : BOOLEAN, remoteAdapter : BOOLEAN,
     defaultMemoryTTL : {DefaultMemoryTTL}, defaultRemoteTTL : {DefaultRemoteTTL},
     defaultCacheNotFound : BOOLEAN,
     defaultCacheNotFoundTTL : {DefaultCacheNotFoundTTL}]

validMemoryTTL(memoryTTL) == IF memoryTTL <= 0 THEN ErrInvalidMemoryExpireTime ELSE nil
validRemoteTTL(remoteTTL) == IF remoteTTL <= 0 THEN ErrInvalidRedisExpireTime ELSE nil
validCacheMissTTL(cacheMissTTL) == IF cacheMissTTL <= 0 THEN ErrInvalidCacheNotFondTTL ELSE nil

ErrAdapterRequired == "adapter is required"

\* A validation that does not look at the default L2 TTL.
validateOptions_noRemoteTTL(cfg) ==
    IF ~cfg.memoryAdapter /\ ~cfg.remoteAdapter THEN ErrAdapterRequired
    ELSE IF cfg.memoryAdapter /\ validMemoryTTL(cfg.defaultMemoryTTL) # nil
         THEN validMemoryTTL(cfg.defaultMemoryTTL)
    ELSE IF cfg.defaultCacheNotFound /\ validCacheMissTTL(cfg.defaultCacheNotFoundTTL) # nil
         THEN validCacheMissTTL(cfg.defaultCacheNotFoundTTL)
    ELSE nil

validateOptions(cfg) ==
    IF ~cfg.memoryAdapter /\ ~cfg.remoteAdapter THEN ErrAdapterRequired
    ELSE IF cfg.memoryAdapter /\ validMemoryTTL(cfg.defaultMemoryTTL) # nil
         THEN validMemoryTTL(cfg.defaultMemoryTTL)
    ELSE IF cfg.remoteAdapter /\ validRemoteTTL(cfg.defaultRemoteTTL) # nil
         THEN validRemoteTTL(cfg.defaultRemoteTTL)
    ELSE IF cfg.defaultCacheNotFound /\ validCacheMissTTL(cfg.defaultCacheNotFoundTTL) # nil
         THEN validCacheMissTTL(cfg.defaultCacheNotFoundTTL)
    ELSE nil

\* newGetOptions: no loader, no override.
newGetOptions ==
    [memoryTTL |-> <<>>, remoteTTL |-> <<>>, loader |-> FALSE, batchLoader |-> FALSE,
     cacheNotFound |-> <<>>, cacheNotFoundTTL |-> <<>>]

\* WithTTL, WithMemoryTTL, WithRemoteTTL: options of Get and MGet, and of Set and
\* MSet.
WithTTL(cfg, memoryTTL, remoteTTL) ==
    [cfg EXCEPT !.memoryTTL = <<memoryTTL>>, !.remoteTTL = <<remoteTTL>>]
WithMemoryTTL(cfg, memoryTTL) == [cfg EXCEPT !.memoryTTL = <<memoryTTL>>]
WithRemoteTTL(cfg, remoteTTL) == [cfg EXCEPT !.remoteTTL = <<remoteTTL>>]

WithLoader(cfg) == [cfg EXCEPT !.loader = TRUE]
WithBatchLoader(cfg) == [cfg EXCEPT !.batchLoader = TRUE]
WithCacheNotFound(cfg, cacheNotFound, cacheNotFoundTTL) ==
    [cfg EXCEPT !.cacheNotFound = <<cacheNotFound>>, !.cacheNotFoundTTL = <<cacheNotFoundTTL>>]

\* A validation of the per-call options that accepts a zero duration.
validateGetOptions_zero(cfg) ==
    IF cfg.memoryTTL # <<>> /\ cfg.memoryTTL[1] < 0 THEN ErrInvalidMemoryExpireTime
    ELSE IF cfg.remoteTTL # <<>> /\ cfg.remoteTTL[1] < 0 THEN ErrInvalidRedisExpireTime
    ELSE IF cfg.cacheNotFoundTTL # <<>> /\ cfg.cacheNotFoundTTL[1] < 0
         THEN ErrInvalidCacheNotFondTTL
    ELSE nil

validateGetOptions(cfg) ==
    IF cfg.memoryTTL # <<>> /\ cfg.memoryTTL[1] <= 0 THEN ErrInvalidMemoryExpireTime
    ELSE IF cfg.remoteTTL # <<>> /\ cfg.remoteTTL[1] <= 0 THEN ErrInvalidRedisExpireTime
    ELSE IF cfg.cacheNotFoundTTL # <<>> /\ cfg.cacheNotFoundTTL[1] <= 0
         THEN ErrInvalidCacheNotFondTTL
    ELSE nil

newSetOptions == [memoryTTL |-> <<>>, remoteTTL |-> <<>>]

validateSetOptions(cfg) ==
    IF cfg.memoryTTL # <<>> /\ cfg.memoryTTL[1] <= 0 THEN ErrInvalidMemoryExpireTime
    ELSE IF cfg.remoteTTL # <<>> /\ cfg.remoteTTL[1] <= 0 THEN ErrInvalidRedisExpireTime
    ELSE nil

(***************************************************************************)
(* The policy layer (cache.go): TTLs and the absence-caching decision.     *)
(***************************************************************************)
\* c is the LayeredCache, config the call's options.
calculateSetTTL(c, config) ==
    [memoryTTL |-> IF config.memoryTTL # <<>> THEN config.memoryTTL[1] ELSE c.defaultMemoryTTL,
     remoteTTL |-> IF config.remoteTTL # <<>> THEN config.remoteTTL[1] ELSE c.defaultRemoteTTL]

\* A policy that writes absence markers at the TTLs of values.
calculateLoaderTTL_asValue(c, config, isNotFound) == calculateSetTTL(c, config)

calculateLoaderTTL(c, config, isNotFound) ==
    IF isNotFound
    THEN LET cacheNotFoundTTL ==
                 IF config.cacheNotFoundTTL # <<>> THEN config.cacheNotFoundTTL[1]
                 ELSE c.defaultCacheNotFoundTTL
         IN  [memoryTTL |-> cacheNotFoundTTL, remoteTTL |-> cacheNotFoundTTL]
    ELSE calculateSetTTL(c, config)

\* A policy that caches every absence.
shouldCacheNotFound_always(c, optCacheNotFound) == TRUE

shouldCacheNotFound(c, optCacheNotFound) ==
    IF optCacheNotFound # <<>> THEN optCacheNotFound[1] ELSE c.defaultCacheNotFound

\* buildBatchKey: "batch:" followed by the keys joined with commas.
RECURSIVE JoinKeys(_)
JoinKeys(keys) ==
    IF Len(keys) = 0 THEN ""
    ELSE IF Len(keys) = 1 THEN keys[1]
    ELSE keys[1] \o "," \o JoinKeys(Tail(keys))

\* A coalescing key built from the keys in one fixed order, whatever the call's.
buildBatchKey_sorted(keys) ==
    "batch:" \o JoinKeys(SelectSeq(<<"a", "a,b", "b", "c">>, LAMBDA k : k \in Range(keys)))

buildBatchKey(keys) == "batch:" \o JoinKeys(keys)

(***************************************************************************)
(* State.                                                                  *)
(***************************************************************************)
VARIABLES
    cache,      \* the LayeredCache NewCache returned: its configuration
    memory,     \* the entries of the L1 store: key -> [data, ttl]
    remote,     \* the entries of the L2 store: key -> [data, ttl]
    sf,         \* the singleflight group's calls in flight: key -> the goroutine executing
    pc,         \* each goroutine's position in the call it is in
    call,       \* each goroutine's call: its arguments, its locals, what it returned
    ops,        \* the number of calls issued so far
    hist,       \* per key, the last completed event no later operation on the key followed
    loads       \* per coalescing key, the number of executions of the loading logic so far

vars == <<cache, memory, remote, sf, pc, call, ops, hist, loads>>

\* The result of singleflight.Group.Do: an any (kind says what it holds) and an error.
NoResult == [err |-> nil, kind |-> "nil", bytes |-> "", map |-> EmptyMap]
BytesResult(b) == [err |-> nil, kind |-> "bytes", bytes |-> b, map |-> EmptyMap]
MapResult(m) == [err |-> nil, kind |-> "map", bytes |-> "", map |-> m]
ErrResult(e) == [err |-> e, kind |-> "nil", bytes |-> "", map |-> EmptyMap]

NoEvent == [val |-> NilValue, ev |-> "none"]

\* A goroutine outside any call.
NoCall ==
    [\* err: the error the call returned (with done, out, mout below);
     \* hist: the key's history when the call was issued (a ghost, see below)
     err |-> nil, data |-> "", target |-> NilValue, isNotFound |-> FALSE,
     keys |-> <<>>, hist |-> NoEvent,
     op |-> "none", key |-> "", value |-> NilValue, values |-> EmptyMap,
     opts |-> newGetOptions,
     mtarget |-> [t |-> "nil", m |-> EmptyMap, elem |-> "nil"],
     ttl |-> [memoryTTL |-> 0, remoteTTL |-> 0],
     result |-> EmptyMap, missingKeys |-> <<>>, writeBackData |-> EmptyMap,
     found |-> EmptyMap, missingData |-> EmptyMap,
     leader |-> 0, res |-> NoResult,
     \* what the call returned: whether it has, what its target holds
     done |-> FALSE, out |-> NilValue, mout |-> EmptyMap,
     \* history of the call, kept for the properties
     \* (id: the call's number; exec: the number of the call whose execution of the
     \* loading logic it got its result from; cold: no tier held any of its keys when
     \* it was issued; peers: the calls in progress when it was issued; fault: a
     \* store failed or did not admit an entry; loaded: the key lists its loader was
     \* called with; answer, answers: what its loader, its batch loader answered;
     \* preMemory, preRemote: the tiers when it was issued; io: the store calls and
     \* loader invocations the call has issued, in order)
     id |-> 0, exec |-> 0, cold |-> FALSE, peers |-> {},
     answer |-> [err |-> nil, value |-> NilValue],
     answers |-> [err |-> nil, values |-> EmptyMap],
     fault |-> FALSE, loaded |-> <<>>,
     preMemory |-> EmptyMap, preRemote |-> EmptyMap, io |-> <<>>]

\* The call c has issued a store call or a loader invocation: which one, with what
\* argument (the keys read or loaded, the entries written), at what TTL, and what
\* came back (the error; for a write to L1, the keys admitted).
Did(c, name, arg, ttl, outcome) == [c EXCEPT !.io = Append(@, <<name, arg, ttl, outcome>>)]

\* The map with the one entry k -> x.
One(k, x) == [y \in {k} |-> x]

\* The calls in progress.
InProgress == {call[q].id : q \in {r \in DOMAIN pc : pc[r] \notin {"idle", "returned"}}}

Entry(data, ttl) == [data |-> data, ttl |-> ttl]

\* An L1 store that drops every write.
MemorySet_drop(m, key, value, expire, admit) == m

\* storage.Memory.Set: the store admits the entry (count 1) or not (count 0).
MemorySet(m, key, value, expire, admit) ==
    IF admit THEN Put(m, key, Entry(value, expire)) ELSE m

\* storage.Memory.MSet: one Set per entry; admitted is the set of keys admitted.
MemoryMSet(m, values, expire, admitted) ==
    Merge(m, [k \in DOMAIN values \cap admitted |-> Entry(values[k], expire)])

\* The sets of keys a Memory.MSet of values may admit: all of them, or all but one.
Admissions(values) ==
    {DOMAIN values} \cup {DOMAIN values \ {k} : k \in DOMAIN values}

\* storage.Remote.Set / MSet, when the store returns no error.
RemoteSet(r, key, value, expire) == Put(r, key, Entry(value, expire))
RemoteMSet(r, values, expire) == Merge(r, [k \in DOMAIN values |-> Entry(values[k], expire)])

\* The errors a call to the remote store can end with.
RemoteErrors == {nil, ErrRemote}

\* A group that never finds the call in flight.
InFlight_never(g, key) == FALSE

\* singleflight.Group.Do: is a call for key in flight?
InFlight(g, key) == key \in DOMAIN g

Goto(p, label) == pc' = [pc EXCEPT ![p] = label]
SetCall(p, c) == call' = [call EXCEPT ![p] = c]
\* The call of p returns: c is its final record.
Return(p, c) ==
    /\ pc' = [pc EXCEPT ![p] = "returned"]
    /\ call' = [call EXCEPT ![p] = [c EXCEPT !.done = TRUE]]

\* The caller has taken what the call returned: the call's frame is gone.
Leave(p) ==
    /\ pc[p] = "returned"
    /\ pc' = [pc EXCEPT ![p] = "idle"]
    /\ call' = [call EXCEPT ![p] = NoCall]
    /\ UNCHANGED <<cache, memory, remote, sf, ops, hist, loads>>

\* return c.Unmarshal(data, target)
Unmarshalled(c, data) ==
    [c EXCEPT !.err = Unmarshal(data, c.target).err, !.out = Unmarshal(data, c.target).val]

Forget(h, S) == [k \in Keys |-> IF k \in S THEN NoEvent ELSE h[k]]

(***************************************************************************)
(* The environment: an entry leaves a tier (its TTL expired, or L1 evicted *)
(* it).                                                                    *)
(***************************************************************************)
ExpireMemory(k) ==
    /\ k \in DOMAIN memory
    /\ memory' = Remove(memory, k)
    /\ hist' = Forget(hist, {k})
    /\ UNCHANGED <<cache, remote, sf, pc, call, ops, loads>>

ExpireRemote(k) ==
    /\ k \in DOMAIN remote
    /\ remote' = Remove(remote, k)
    /\ hist' = Forget(hist, {k})
    /\ UNCHANGED <<cache, memory, sf, pc, call, ops, loads>>

(***************************************************************************)
(* Set (cache.go, LayeredCache.Set).                                       *)
(***************************************************************************)
\* A Set that writes L1 before it looks at its options.
StartSet_eager(p, key, value, config) ==
    /\ pc[p] = "idle" /\ ops < MaxOps
    /\ ops' = ops + 1
    /\ LET c0 == [NoCall EXCEPT !.op = "Set", !.key = key, !.value = value, !.opts = config]
           data == Marshal(value)
       IN  /\ memory' = IF cache.memory /\ data.err = nil
                        THEN MemorySet(memory, key, data.data,
                                       calculateSetTTL(cache, config).memoryTTL, TRUE)
                        ELSE memory
           /\ IF validateSetOptions(config) # nil
              THEN Return(p, [c0 EXCEPT !.err = validateSetOptions(config)])
              ELSE IF data.err # nil
              THEN Return(p, [c0 EXCEPT !.err = data.err])
              ELSE /\ SetCall(p, [c0 EXCEPT !.data = data.data,
                                            !.ttl = calculateSetTTL(cache, config)])
                   /\ Goto(p, IF cache.memory THEN "Set_memory" ELSE "Set_remote")
    /\ hist' = Forget(hist, {key})
    /\ UNCHANGED <<cache, remote, sf, loads>>

StartSet(p, key, value, config) ==
    /\ pc[p] = "idle" /\ ops < MaxOps
    /\ ops' = ops + 1
    /\ LET c0 == [NoCall EXCEPT !.op = "Set", !.key = key, !.value = value, !.opts = config]
           data == Marshal(value)
       IN  IF validateSetOptions(config) # nil
           THEN Return(p, [c0 EXCEPT !.err = validateSetOptions(config)])
           ELSE IF data.err # nil
           THEN Return(p, [c0 EXCEPT !.err = data.err])
           ELSE /\ SetCall(p, [c0 EXCEPT !.data = data.data,
                                         !.ttl = calculateSetTTL(cache, config)])
                /\ Goto(p, IF cache.memory THEN "Set_memory" ELSE "Set_remote")
    /\ hist' = Forget(hist, {key})
    /\ UNCHANGED <<cache, memory, remote, sf, loads>>

\* What the key's history becomes when Set returns.
HistSet(c) ==
    [hist EXCEPT ![c.key] = IF c.err = nil /\ ~c.fault
                            THEN [val |-> c.value, ev |-> "Set"] ELSE NoEvent]

Set_memory(p) ==
    /\ pc[p] = "Set_memory"
    /\ \E admit \in BOOLEAN :
        LET c == Did([call[p] EXCEPT !.fault = ~admit], "memory.Set",
                     One(call[p].key, call[p].data), call[p].ttl.memoryTTL,
                     IF admit THEN {call[p].key} ELSE {})
        IN  /\ memory' = MemorySet(memory, c.key, c.data, c.ttl.memoryTTL, admit)
            /\ IF cache.remote
               THEN SetCall(p, c) /\ Goto(p, "Set_remote") /\ UNCHANGED hist
               ELSE Return(p, c) /\ hist' = HistSet(c)
    /\ UNCHANGED <<cache, remote, sf, ops, loads>>

\* A Set that takes its L1 entry back when the L2 write fails.
Set_remote_rollback(p) ==
    /\ pc[p] = "Set_remote"
    /\ \E err \in RemoteErrors :
        LET c == Did([call[p] EXCEPT !.err = err], "remote.Set",
                     One(call[p].key, call[p].data), call[p].ttl.remoteTTL, err)
        IN  /\ remote' = IF err = nil
                         THEN RemoteSet(remote, c.key, c.data, c.ttl.remoteTTL)
                         ELSE remote
            /\ memory' = IF err = nil THEN memory ELSE Remove(memory, c.key)
            /\ Return(p, c)
            /\ hist' = HistSet(c)
    /\ UNCHANGED <<cache, sf, ops, loads>>

Set_remote(p) ==
    /\ pc[p] = "Set_remote"
    /\ \E err \in RemoteErrors :
        LET c == Did([call[p] EXCEPT !.err = err], "remote.Set",
                     One(call[p].key, call[p].data), call[p].ttl.remoteTTL, err)
        IN  /\ remote' = IF err = nil
                         THEN RemoteSet(remote, c.key, c.data, c.ttl.remoteTTL)
                         ELSE remote
            /\ Return(p, c)
            /\ hist' = HistSet(c)
    /\ UNCHANGED <<cache, memory, sf, ops, loads>>

(***************************************************************************)
(* Delete (cache.go, LayeredCache.Delete).                                 *)
(***************************************************************************)
StartDelete(p, key) ==
    /\ pc[p] = "idle" /\ ops < MaxOps
    /\ ops' = ops + 1
    /\ SetCall(p, [NoCall EXCEPT !.op = "Delete", !.key = key,
                                 !.preMemory = memory, !.preRemote = remote])
    /\ Goto(p, IF cache.memory THEN "Delete_memory" ELSE "Delete_remote")
    /\ hist' = Forget(hist, {key})
    /\ UNCHANGED <<cache, memory, remote, sf, loads>>

\* What the key's history becomes when Delete returns: the event keeps what the
\* tiers held for the key when the Delete was issued.
HistDelete(c) ==
    [hist EXCEPT ![c.key] =
        IF c.err # nil THEN NoEvent
        ELSE [val |-> IF c.key \in DOMAIN c.preMemory THEN Raw(c.preMemory[c.key].data)
                      ELSE IF c.key \in DOMAIN c.preRemote THEN Raw(c.preRemote[c.key].data)
                      ELSE NilValue,
              ev |-> "Delete"]]

\* A Delete that leaves L1 as it is.
Delete_memory_skip(p) ==
    /\ pc[p] = "Delete_memory"
    /\ IF cache.remote
       THEN Goto(p, "Delete_remote") /\ UNCHANGED <<call, hist>>
       ELSE Return(p, call[p]) /\ hist' = HistDelete(call[p])
    /\ UNCHANGED <<cache, memory, remote, sf, ops, loads>>

Delete_memory(p) ==
    /\ pc[p] = "Delete_memory"
    /\ memory' = Remove(memory, call[p].key)
    /\ LET c == Did(call[p], "memory.Delete", <<call[p].key>>, 0, nil)
       IN  IF cache.remote
           THEN SetCall(p, c) /\ Goto(p, "Delete_remote") /\ UNCHANGED hist
           ELSE Return(p, c) /\ hist' = HistDelete(c)
    /\ UNCHANGED <<cache, remote, sf, ops, loads>>

Delete_remote(p) ==
    /\ pc[p] = "Delete_remote"
    /\ \E err \in RemoteErrors :
        LET c == Did([call[p] EXCEPT !.err = err], "remote.Delete", <<call[p].key>>, 0, err)
        IN  /\ remote' = IF err = nil THEN Remove(remote, c.key) ELSE remote
            /\ Return(p, c)
            /\ hist' = HistDelete(c)
    /\ UNCHANGED <<cache, memory, sf, ops, loads>>

(***************************************************************************)
(* Get (cache.go, LayeredCache.Get) and the single-key load path           *)
(* (LayeredCache.loadAndCache) run through the singleflight group.         *)
(***************************************************************************)
StartGet(p, key, config, target) ==
    /\ pc[p] = "idle" /\ ops < MaxOps
    /\ ops' = ops + 1
    /\ LET c0 == [NoCall EXCEPT !.op = "Get", !.key = key, !.opts = config,
                                !.target = target, !.out = target,
                                !.hist = IF key \in DOMAIN hist THEN hist[key] ELSE NoEvent,
                                !.id = ops + 1, !.peers = InProgress,
                                !.preMemory = memory, !.preRemote = remote,
                                !.cold = key \notin DOMAIN memory \cup DOMAIN remote]
       IN  IF validateGetOptions(config) # nil
           THEN Return(p, [c0 EXCEPT !.err = validateGetOptions(config)])
           ELSE SetCall(p, c0) /\ Goto(p, "Get_memory")
    /\ UNCHANGED <<cache, memory, remote, sf, hist, loads>>

\* The loader of the call ran and signalled absence: the not-found error, or a nil
\* value without error.
LoaderAbsent(c) ==
    /\ c.loaded # <<>>
    /\ \/ c.answer.err = ErrNotFound
       \/ c.answer.err = nil /\ c.answer.value = NilValue

\* The loader of the call ran and answered a value.
LoaderPresent(c) ==
    c.loaded # <<>> /\ c.answer.err = nil /\ c.answer.value # NilValue

\* What absence caching resolves to for the call: the call's own setting when it
\* gave one, the instance default otherwise.
AbsenceCaching(c) ==
    IF c.opts.cacheNotFound = <<>> THEN cache.defaultCacheNotFound
    ELSE c.opts.cacheNotFound[1]

\* What the key's history becomes when Get returns: a Get whose loader signalled
\* absence leaves the absence behind, "Absent" with absence caching resolved to
\* enabled and "Miss" with it resolved to disabled.
HistGet(c) ==
    IF c.loaded = <<>> THEN hist
    ELSE [hist EXCEPT ![c.key] =
            IF LoaderAbsent(c) /\ ~c.fault
            THEN [val |-> NilValue, ev |-> IF AbsenceCaching(c) THEN "Absent" ELSE "Miss"]
            ELSE IF LoaderPresent(c) /\ c.cold /\ c.err = nil /\ ~c.fault
            THEN [val |-> c.answer.value, ev |-> "Loaded"]
            ELSE NoEvent]

\* if config.loader == nil { return ErrNotFound }, else on to c.sf.Do
Get_miss(p, c) ==
    IF ~c.opts.loader
    THEN Return(p, [c EXCEPT !.err = ErrNotFound])
    ELSE SetCall(p, c) /\ Goto(p, "Get_sf")

Get_memory(p) ==
    /\ pc[p] = "Get_memory"
    /\ LET c == IF cache.memory
                THEN Did(call[p], "memory.Get", <<call[p].key>>, 0, nil)
                ELSE call[p]
       IN  IF cache.memory /\ c.key \in DOMAIN memory
           THEN IF IsPlaceholder(memory[c.key].data)
                THEN Return(p, [c EXCEPT !.err = ErrNotFound])
                ELSE Return(p, Unmarshalled(c, memory[c.key].data))
           ELSE IF cache.remote
                THEN SetCall(p, c) /\ Goto(p, "Get_remote")
                ELSE Get_miss(p, c)
    /\ UNCHANGED <<cache, memory, remote, sf, ops, hist, loads>>

\* Get_remote with a failed L2 read attempted again instead of returned.
Get_remote_retry(p) ==
    /\ pc[p] = "Get_remote"
    /\ \E err \in RemoteErrors :
        LET c == Did(call[p], "remote.Get", <<call[p].key>>, 0, err)
        IN  IF err # nil
            THEN SetCall(p, [c EXCEPT !.fault = TRUE]) /\ Goto(p, "Get_remote")
            ELSE IF c.key \in DOMAIN remote
            THEN IF IsPlaceholder(remote[c.key].data)
                 THEN Return(p, [c EXCEPT !.err = ErrNotFound])
                 ELSE IF cache.memory
                      THEN /\ SetCall(p, [c EXCEPT !.data = remote[c.key].data])
                           /\ Goto(p, "Get_writeback")
                      ELSE Return(p, Unmarshalled(c, remote[c.key].data))
            ELSE Get_miss(p, c)
    /\ UNCHANGED <<cache, memory, remote, sf, ops, hist, loads>>

Get_remote(p) ==
    /\ pc[p] = "Get_remote"
    /\ \E err \in RemoteErrors :
        LET c == Did(call[p], "remote.Get", <<call[p].key>>, 0, err)
        IN  IF err # nil
            THEN Return(p, [c EXCEPT !.err = err, !.fault = TRUE])
            ELSE IF c.key \in DOMAIN remote
            THEN IF IsPlaceholder(remote[c.key].data)
                 THEN Return(p, [c EXCEPT !.err = ErrNotFound])
                 ELSE IF cache.memory
                      THEN /\ SetCall(p, [c EXCEPT !.data = remote[c.key].data])
                           /\ Goto(p, "Get_writeback")
                      ELSE Return(p, Unmarshalled(c, remote[c.key].data))
            ELSE Get_miss(p, c)
    /\ UNCHANGED <<cache, memory, remote, sf, ops, hist, loads>>

\* The bytes found in L2 are written back into L1.
Get_writeback(p) ==
    /\ pc[p] = "Get_writeback"
    /\ \E admit \in BOOLEAN :
        LET memoryTTL == calculateLoaderTTL(cache, call[p].opts, FALSE).memoryTTL
            c == Did([call[p] EXCEPT !.fault = ~admit], "memory.Set",
                     One(call[p].key, call[p].data), memoryTTL,
                     IF admit THEN {call[p].key} ELSE {})
        IN  /\ memory' = MemorySet(memory, c.key, c.data, memoryTTL, admit)
            /\ Return(p, Unmarshalled(c, c.data))
    /\ UNCHANGED <<cache, remote, sf, ops, hist, loads>>

\* c.sf.Do(key, ...): join the call in flight for the key, or become the one that
\* executes loadAndCache.
\* A group with one slot: a call joins whatever execution is in flight.
Get_sf_oneSlot(p) ==
    /\ pc[p] = "Get_sf"
    /\ IF DOMAIN sf # {}
       THEN LET k == CHOOSE x \in DOMAIN sf : TRUE
            IN  /\ SetCall(p, [call[p] EXCEPT !.leader = sf[k], !.exec = call[sf[k]].id])
                /\ Goto(p, "Sf_wait")
                /\ UNCHANGED sf
       ELSE /\ sf' = Put(sf, call[p].key, p)
            /\ SetCall(p, [call[p] EXCEPT !.leader = p, !.exec = call[p].id])
            /\ Goto(p, "Load_call")
    /\ UNCHANGED <<cache, memory, remote, ops, hist, loads>>

Get_sf(p) ==
    /\ pc[p] = "Get_sf"
    /\ IF InFlight(sf, call[p].key)
       THEN /\ SetCall(p, [call[p] EXCEPT !.leader = sf[call[p].key],
                                         !.exec = call[sf[call[p].key]].id])
            /\ Goto(p, "Sf_wait")
            /\ UNCHANGED sf
       ELSE /\ sf' = Put(sf, call[p].key, p)
            /\ SetCall(p, [call[p] EXCEPT !.leader = p, !.exec = call[p].id])
            /\ Goto(p, "Load_call")
    /\ UNCHANGED <<cache, memory, remote, ops, hist, loads>>

\* A load that returns the bytes it wrote, the absence marker included.
LoadResult_data(c) == BytesResult(c.data)

\* What loadAndCache returns once its writes are done.
LoadResult(c) == IF c.isNotFound THEN ErrResult(ErrNotFound) ELSE BytesResult(c.data)

\* loadAndCache up to its first write: the loader is called and answers (value, err).
Load_call(p, value, err) ==
    /\ pc[p] = "Load_call"
    /\ loads' = Put(loads, call[p].key,
                    IF call[p].key \in DOMAIN loads THEN loads[call[p].key] + 1 ELSE 1)
    /\ LET c == Did([call[p] EXCEPT !.loaded = Append(@, <<call[p].key>>),
                                    !.answer = [err |-> err, value |-> value]],
                     "loader", <<call[p].key>>, 0, err)
           isNotFound == IsNotFound(err) \/ value = NilValue
           cacheNotFound == shouldCacheNotFound(cache, c.opts.cacheNotFound)
           data == Marshal(IF isNotFound THEN Raw(notFoundPlaceholder) ELSE value)
       IN  IF err # nil /\ ~IsNotFound(err)
           THEN SetCall(p, [c EXCEPT !.res = ErrResult(err)]) /\ Goto(p, "Sf_done")
           ELSE IF isNotFound /\ ~cacheNotFound
           THEN /\ SetCall(p, [c EXCEPT !.isNotFound = TRUE, !.res = ErrResult(ErrNotFound)])
                /\ Goto(p, "Sf_done")
           ELSE IF data.err # nil
           THEN SetCall(p, [c EXCEPT !.res = ErrResult(data.err)]) /\ Goto(p, "Sf_done")
           ELSE LET d == [c EXCEPT !.isNotFound = isNotFound, !.data = data.data,
                                   !.ttl = calculateLoaderTTL(cache, c.opts,
                                                              isNotFound /\ cacheNotFound)]
                IN  IF cache.memory
                    THEN SetCall(p, d) /\ Goto(p, "Load_memory")
                    ELSE SetCall(p, d) /\ Goto(p, "Load_remote")
    /\ UNCHANGED <<cache, memory, remote, sf, ops, hist>>

Load_memory(p) ==
    /\ pc[p] = "Load_memory"
    /\ \E admit \in BOOLEAN :
        LET c == Did([call[p] EXCEPT !.fault = @ \/ ~admit], "memory.Set",
                     One(call[p].key, call[p].data), call[p].ttl.memoryTTL,
                     IF admit THEN {call[p].key} ELSE {})
        IN  /\ memory' = MemorySet(memory, c.key, c.data, c.ttl.memoryTTL, admit)
            /\ IF cache.remote
               THEN SetCall(p, c) /\ Goto(p, "Load_remote")
               ELSE SetCall(p, [c EXCEPT !.res = LoadResult(c)]) /\ Goto(p, "Sf_done")
    /\ UNCHANGED <<cache, remote, sf, ops, hist, loads>>

Load_remote(p) ==
    /\ pc[p] = "Load_remote"
    /\ \E err \in RemoteErrors :
        LET c == Did(call[p], "remote.Set", One(call[p].key, call[p].data),
                     call[p].ttl.remoteTTL, err)
        IN  /\ remote' = IF err = nil
                         THEN RemoteSet(remote, c.key, c.data, c.ttl.remoteTTL)
                         ELSE remote
            /\ SetCall(p, IF err = nil
                          THEN [c EXCEPT !.res = LoadResult(c)]
                          ELSE [c EXCEPT !.res = ErrResult(err), !.fault = TRUE])
            /\ Goto(p, "Sf_done")
    /\ UNCHANGED <<cache, memory, sf, ops, hist, loads>>

\* The key the call of p went to the singleflight group with.
SfKey(c) == IF c.op = "MGet" THEN buildBatchKey(c.missingKeys) ELSE c.key

\* Where a call continues when Do returns.
AfterDo(c) == IF c.op = "MGet" THEN "MGet_return" ELSE "Get_return"

\* A goroutine that joined is released before the result is there.
Shared_none(res) == NoResult

\* c.wg.Wait(); return c.val, c.err: what a goroutine that joined gets from the
\* execution whose result is res.
Shared(res) == res

\* An execution that ends without releasing the goroutines that joined.
Sf_done_noRelease(p) ==
    /\ pc[p] = "Sf_done"
    /\ sf' = IF SfKey(call[p]) \in DOMAIN sf /\ sf[SfKey(call[p])] = p
             THEN Remove(sf, SfKey(call[p])) ELSE sf
    /\ pc' = [pc EXCEPT ![p] = AfterDo(call[p])]
    /\ UNCHANGED <<cache, memory, remote, call, ops, hist, loads>>

\* singleflight: the execution ends; the key leaves the group and the goroutines
\* that joined are released with the executing goroutine's result.
Sf_done(p) ==
    /\ pc[p] = "Sf_done"
    /\ sf' = IF SfKey(call[p]) \in DOMAIN sf /\ sf[SfKey(call[p])] = p
             THEN Remove(sf, SfKey(call[p])) ELSE sf
    /\ LET joined == {q \in Procs : pc[q] = "Sf_wait" /\ call[q].leader = p}
       IN  /\ pc' = [q \in Procs |-> IF q = p \/ q \in joined THEN AfterDo(call[q]) ELSE pc[q]]
           /\ call' = [q \in Procs |-> IF q \in joined
                                       THEN [call[q] EXCEPT !.res = Shared(call[p].res)]
                                       ELSE call[q]]
    /\ UNCHANGED <<cache, memory, remote, ops, hist, loads>>

\* if err != nil { return err }; return c.Unmarshal(result.([]byte), target)
Get_return(p) ==
    /\ pc[p] = "Get_return"
    /\ LET c == call[p]
           r == IF c.res.err # nil THEN [c EXCEPT !.err = c.res.err]
                ELSE IF c.res.kind # "bytes" THEN [c EXCEPT !.err = Panic]
                ELSE Unmarshalled(c, c.res.bytes)
       IN  Return(p, r) /\ hist' = HistGet(r)
    /\ UNCHANGED <<cache, memory, remote, sf, ops, loads>>

(***************************************************************************)
(* MGet (cache.go, LayeredCache.MGet) and the batch load path              *)
(* (LayeredCache.batchLoadAndCache).                                       *)
(***************************************************************************)
ErrInvalidMGetTarget == "invalid mget target"

\* validateMGetTarget: target must be a pointer to a map with string keys.  A target
\* is [t, m, elem]: what it is, the map it points to, the map's value type.
\* A validation of the target that takes a pointer to any map.
validateMGetTarget_anyMap(target) ==
    IF target.t = "nil" THEN ErrInvalidMGetTarget
    ELSE IF target.t = "notPointer" THEN ErrInvalidMGetTarget
    ELSE IF target.t = "pointerToNotMap" THEN ErrInvalidMGetTarget
    ELSE nil

validateMGetTarget(target) ==
    IF target.t = "nil" THEN ErrInvalidMGetTarget
    ELSE IF target.t = "notPointer" THEN ErrInvalidMGetTarget
    ELSE IF target.t = "pointerToNotMap" THEN ErrInvalidMGetTarget
    ELSE IF target.t = "pointerToMapOfIntKeys" THEN ErrInvalidMGetTarget
    ELSE nil

\* reflect.New(valueType): a zero value of the map's value type.
Zero(t) == [t |-> t, v |-> ""]

\* unmarshalBatch: a new map with every entry decoded, or the first error.
unmarshalBatch(data, target) ==
    LET decoded == [k \in DOMAIN data |-> Unmarshal(data[k], Zero(target.elem))]
        failed == {k \in DOMAIN data : decoded[k].err # nil}
    IN  IF failed # {}
        THEN [err |-> decoded[CHOOSE k \in failed : TRUE].err, m |-> target.m]
        ELSE [err |-> nil, m |-> [k \in DOMAIN data |-> decoded[k].val]]

\* An MGet that goes on to the tiers with an empty key list.
StartMGetIn_readEmpty(p, frame, keys, config, target) ==
    /\ pc[p] = "idle" /\ ops < MaxOps
    /\ ops' = ops + 1
    /\ LET c0 == [frame EXCEPT !.op = "MGet", !.keys = keys, !.opts = config,
                                !.mtarget = target, !.mout = target.m,
                                !.preMemory = memory, !.preRemote = remote,
                                !.id = ops + 1, !.peers = InProgress,
                                !.cold = Range(keys) \cap (DOMAIN memory \cup DOMAIN remote) = {}]
       IN  IF validateGetOptions(config) # nil
           THEN Return(p, [c0 EXCEPT !.err = validateGetOptions(config)])
           ELSE IF validateMGetTarget(target) # nil
           THEN Return(p, [c0 EXCEPT !.err = validateMGetTarget(target)])
           ELSE IF cache.memory
           THEN SetCall(p, c0) /\ Goto(p, "MGet_memory")
           ELSE SetCall(p, [c0 EXCEPT !.missingKeys = keys]) /\ Goto(p, "MGet_remote")
    /\ UNCHANGED <<cache, memory, remote, sf, hist, loads>>

\* MGet is called from the frame of the caller: NoCall, or what a wrapper holds.
StartMGetIn(p, frame, keys, config, target) ==
    /\ pc[p] = "idle" /\ ops < MaxOps
    /\ ops' = ops + 1
    /\ LET c0 == [frame EXCEPT !.op = "MGet", !.keys = keys, !.opts = config,
                                !.mtarget = target, !.mout = target.m,
                                !.preMemory = memory, !.preRemote = remote,
                                !.id = ops + 1, !.peers = InProgress,
                                !.cold = Range(keys) \cap (DOMAIN memory \cup DOMAIN remote) = {}]
       IN  IF validateGetOptions(config) # nil
           THEN Return(p, [c0 EXCEPT !.err = validateGetOptions(config)])
           ELSE IF Len(keys) = 0
           THEN Return(p, c0)
           ELSE IF validateMGetTarget(target) # nil
           THEN Return(p, [c0 EXCEPT !.err = validateMGetTarget(target)])
           ELSE IF cache.memory
           THEN SetCall(p, c0) /\ Goto(p, "MGet_memory")
           ELSE SetCall(p, [c0 EXCEPT !.missingKeys = keys]) /\ Goto(p, "MGet_remote")
    /\ UNCHANGED <<cache, memory, remote, sf, hist, loads>>

StartMGet(p, keys, config, target) == StartMGetIn(p, NoCall, keys, config, target)

\* A read that takes the absence markers for entries.
RealEntries_all(store, keys) == [k \in Range(keys) \cap DOMAIN store |-> store[k].data]

\* The entries of a store for the keys asked, without the absence markers.
RealEntries(store, keys) ==
    [k \in {x \in Range(keys) \cap DOMAIN store : ~IsPlaceholder(store[x].data)}
        |-> store[k].data]

\* if len(result) == 0 { return nil }; return c.unmarshalBatch(result, target)
MGet_finish(p, c) ==
    IF c.result = EmptyMap
    THEN Return(p, c)
    ELSE Return(p, [c EXCEPT !.err = unmarshalBatch(c.result, c.mtarget).err,
                             !.mout = unmarshalBatch(c.result, c.mtarget).m])

\* if len(missingKeys) > 0 && config.batchLoader != nil: on to c.sf.Do
MGet_load(p, c) ==
    IF Len(c.missingKeys) > 0 /\ c.opts.batchLoader
    THEN SetCall(p, c) /\ Goto(p, "MGet_sf")
    ELSE MGet_finish(p, c)

\* A batch read of L1 that takes a key with the absence marker for a missing key.
MGet_memory_markerMissing(p) ==
    /\ pc[p] = "MGet_memory"
    /\ LET c == Did([call[p] EXCEPT
                        !.result = RealEntries(memory, call[p].keys),
                        !.missingKeys = SelectKeys(call[p].keys,
                            Range(call[p].keys) \ DOMAIN RealEntries(memory, call[p].keys))],
                     "memory.MGet", call[p].keys, 0, nil)
       IN  IF cache.remote /\ Len(c.missingKeys) > 0
           THEN SetCall(p, c) /\ Goto(p, "MGet_remote")
           ELSE MGet_load(p, c)
    /\ UNCHANGED <<cache, memory, remote, sf, ops, hist, loads>>

\* The batch read of L1.
MGet_memory(p) ==
    /\ pc[p] = "MGet_memory"
    /\ LET c == Did([call[p] EXCEPT
                        !.result = RealEntries(memory, call[p].keys),
                        !.missingKeys = SelectKeys(call[p].keys,
                                                   Range(call[p].keys) \ DOMAIN memory)],
                     "memory.MGet", call[p].keys, 0, nil)
       IN  IF cache.remote /\ Len(c.missingKeys) > 0
           THEN SetCall(p, c) /\ Goto(p, "MGet_remote")
           ELSE MGet_load(p, c)
    /\ UNCHANGED <<cache, memory, remote, sf, ops, hist, loads>>

\* MGet_remote with a failed L2 read taken for a miss of every key.
MGet_remote_asMiss(p) ==
    /\ pc[p] = "MGet_remote"
    /\ \E err \in RemoteErrors :
        LET c == Did(call[p], "remote.MGet", call[p].missingKeys, 0, err)
            hits == RealEntries(remote, c.missingKeys)
            d == [c EXCEPT !.result = Merge(@, hits),
                           !.writeBackData = IF cache.memory THEN hits ELSE EmptyMap,
                           !.missingKeys = SelectKeys(@, Range(@) \ DOMAIN remote)]
        IN  IF err # nil /\ ~IsNotFound(err)
            THEN MGet_load(p, [c EXCEPT !.fault = TRUE])
            ELSE IF cache.memory /\ d.writeBackData # EmptyMap
            THEN SetCall(p, d) /\ Goto(p, "MGet_writeback")
            ELSE MGet_load(p, d)
    /\ UNCHANGED <<cache, memory, remote, sf, ops, hist, loads>>

\* The batch read of L2 for the keys L1 does not hold.
MGet_remote(p) ==
    /\ pc[p] = "MGet_remote"
    /\ \E err \in RemoteErrors :
        LET c == Did(call[p], "remote.MGet", call[p].missingKeys, 0, err)
            hits == RealEntries(remote, c.missingKeys)
            d == [c EXCEPT !.result = Merge(@, hits),
                           !.writeBackData = IF cache.memory THEN hits ELSE EmptyMap,
                           !.missingKeys = SelectKeys(@, Range(@) \ DOMAIN remote)]
        IN  IF err # nil /\ ~IsNotFound(err)
            THEN Return(p, [c EXCEPT !.err = err, !.fault = TRUE])
            ELSE IF cache.memory /\ d.writeBackData # EmptyMap
            THEN SetCall(p, d) /\ Goto(p, "MGet_writeback")
            ELSE MGet_load(p, d)
    /\ UNCHANGED <<cache, memory, remote, sf, ops, hist, loads>>

\* The L2 hits are written back into L1 in one batch.
MGet_writeback(p) ==
    /\ pc[p] = "MGet_writeback"
    /\ \E admitted \in Admissions(call[p].writeBackData) :
        LET memoryTTL == calculateLoaderTTL(cache, call[p].opts, FALSE).memoryTTL
            c == Did([call[p] EXCEPT !.fault = admitted # DOMAIN call[p].writeBackData],
                     "memory.MSet", call[p].writeBackData, memoryTTL, admitted)
        IN  /\ memory' = MemoryMSet(memory, c.writeBackData, memoryTTL, admitted)
            /\ MGet_load(p, c)
    /\ UNCHANGED <<cache, remote, sf, ops, hist, loads>>

\* c.sf.Do(batchKey, ...): join the call in flight, or execute batchLoadAndCache.
MGet_sf(p) ==
    /\ pc[p] = "MGet_sf"
    /\ LET batchKey == buildBatchKey(call[p].missingKeys)
       IN  IF InFlight(sf, batchKey)
           THEN /\ SetCall(p, [call[p] EXCEPT !.leader = sf[batchKey],
                                             !.exec = call[sf[batchKey]].id])
                /\ Goto(p, "Sf_wait")
                /\ UNCHANGED sf
           ELSE /\ sf' = Put(sf, batchKey, p)
                /\ SetCall(p, [call[p] EXCEPT !.leader = p, !.exec = call[p].id])
                /\ Goto(p, "Batch_call")
    /\ UNCHANGED <<cache, memory, remote, ops, hist, loads>>

\* The writes of batchLoadAndCache, in the order it issues them, and whether the
\* execution c issues each: found values to L1, to L2, absence markers to L1, to L2.
BatchStages == <<"Batch_memory", "Batch_remote", "Batch_missMemory", "Batch_missRemote">>

BatchStageOn(c, i) ==
    CASE i = 1 -> c.found # EmptyMap /\ cache.memory
      [] i = 2 -> c.found # EmptyMap /\ cache.remote
      [] i = 3 -> c.missingData # EmptyMap /\ cache.memory
      [] OTHER -> c.missingData # EmptyMap /\ cache.remote

\* The execution c moves on from its i-th write (0: from the classification) to the
\* next write it issues, or returns its found values.
BatchGoto(p, c, i) ==
    LET later == {j \in (i + 1)..Len(BatchStages) : BatchStageOn(c, j)}
    IN  IF later = {}
        THEN SetCall(p, [c EXCEPT !.res = MapResult(c.found)]) /\ Goto(p, "Sf_done")
        ELSE SetCall(p, c) /\ Goto(p, BatchStages[CHOOSE j \in later : \A l \in later : j <= l])

\* batchLoadAndCache up to its first write: the batch loader is called with the
\* missing keys and answers (values, err); every key is classified.
Batch_call(p, values, err) ==
    /\ pc[p] = "Batch_call"
    /\ LET batchKey == buildBatchKey(call[p].missingKeys)
       IN  loads' = Put(loads, batchKey,
                        IF batchKey \in DOMAIN loads THEN loads[batchKey] + 1 ELSE 1)
    /\ LET c == Did([call[p] EXCEPT !.loaded = Append(@, call[p].missingKeys),
                                    !.answers = [err |-> err, values |-> values]],
                     "batchLoader", call[p].missingKeys, 0, err)
           keys == Range(c.missingKeys)
           cacheNotFound == shouldCacheNotFound(cache, c.opts.cacheNotFound)
           absent == {k \in keys : k \notin DOMAIN values \/ values[k] = NilValue}
           failed == {k \in keys \ absent : Marshal(values[k]).err # nil}
           d == [c EXCEPT
                   !.found = [k \in keys \ absent |-> Marshal(values[k]).data],
                   !.missingData = [k \in IF cacheNotFound THEN absent ELSE {}
                                       |-> notFoundPlaceholder]]
       IN  IF err # nil /\ ~IsNotFound(err)
           THEN SetCall(p, [c EXCEPT !.res = ErrResult(err)]) /\ Goto(p, "Sf_done")
           ELSE IF failed # {}
           THEN /\ SetCall(p, [c EXCEPT !.res =
                        ErrResult(Marshal(values[CHOOSE k \in failed : TRUE]).err)])
                /\ Goto(p, "Sf_done")
           ELSE BatchGoto(p, d, 0)
    /\ UNCHANGED <<cache, memory, remote, sf, ops, hist>>

Batch_memory(p) ==
    /\ pc[p] = "Batch_memory"
    /\ \E admitted \in Admissions(call[p].found) :
        LET memoryTTL == calculateLoaderTTL(cache, call[p].opts, FALSE).memoryTTL
            c == Did([call[p] EXCEPT !.fault = @ \/ admitted # DOMAIN call[p].found],
                     "memory.MSet", call[p].found, memoryTTL, admitted)
        IN  /\ memory' = MemoryMSet(memory, c.found, memoryTTL, admitted)
            /\ BatchGoto(p, c, 1)
    /\ UNCHANGED <<cache, remote, sf, ops, hist, loads>>

Batch_remote(p) ==
    /\ pc[p] = "Batch_remote"
    /\ \E err \in RemoteErrors :
        LET remoteTTL == calculateLoaderTTL(cache, call[p].opts, FALSE).remoteTTL
            c == Did(call[p], "remote.MSet", call[p].found, remoteTTL, err)
        IN  IF err # nil
            THEN /\ SetCall(p, [c EXCEPT !.res = ErrResult(err), !.fault = TRUE])
                 /\ Goto(p, "Sf_done")
                 /\ UNCHANGED remote
            ELSE /\ remote' = RemoteMSet(remote, c.found, remoteTTL)
                 /\ BatchGoto(p, c, 2)
    /\ UNCHANGED <<cache, memory, sf, ops, hist, loads>>

Batch_missMemory(p) ==
    /\ pc[p] = "Batch_missMemory"
    /\ \E admitted \in Admissions(call[p].missingData) :
        LET memoryTTL == calculateLoaderTTL(cache, call[p].opts, TRUE).memoryTTL
            c == Did([call[p] EXCEPT !.fault = @ \/ admitted # DOMAIN call[p].missingData],
                     "memory.MSet", call[p].missingData, memoryTTL, admitted)
        IN  /\ memory' = MemoryMSet(memory, c.missingData, memoryTTL, admitted)
            /\ BatchGoto(p, c, 3)
    /\ UNCHANGED <<cache, remote, sf, ops, hist, loads>>

Batch_missRemote(p) ==
    /\ pc[p] = "Batch_missRemote"
    /\ \E err \in RemoteErrors :
        LET remoteTTL == calculateLoaderTTL(cache, call[p].opts, TRUE).remoteTTL
            c == Did(call[p], "remote.MSet", call[p].missingData, remoteTTL, err)
        IN  IF err # nil
            THEN /\ SetCall(p, [c EXCEPT !.res = ErrResult(err), !.fault = TRUE])
                 /\ Goto(p, "Sf_done")
                 /\ UNCHANGED remote
            ELSE /\ remote' = RemoteMSet(remote, c.missingData, remoteTTL)
                 /\ BatchGoto(p, c, 4)
    /\ UNCHANGED <<cache, memory, sf, ops, hist, loads>>

\* An MGet that hands over the entries it found when its batch load failed.
MGet_return_partial(p) ==
    /\ pc[p] = "MGet_return"
    /\ LET c == call[p]
       IN  /\ IF c.res.err # nil
              THEN Return(p, [c EXCEPT !.err = c.res.err,
                                       !.mout = unmarshalBatch(c.result, c.mtarget).m])
              ELSE IF c.res.kind # "map" THEN Return(p, [c EXCEPT !.err = Panic])
              ELSE MGet_finish(p, [c EXCEPT !.result = Merge(@, c.res.map)])
           /\ hist' = IF c.loaded = <<>> THEN hist ELSE Forget(hist, Range(c.missingKeys))
    /\ UNCHANGED <<cache, memory, remote, sf, ops, loads>>

\* if err != nil { return err }; the loaded entries are merged into result.
MGet_return(p) ==
    /\ pc[p] = "MGet_return"
    /\ LET c == call[p]
       IN  /\ IF c.res.err # nil THEN Return(p, [c EXCEPT !.err = c.res.err])
              ELSE IF c.res.kind # "map" THEN Return(p, [c EXCEPT !.err = Panic])
              ELSE MGet_finish(p, [c EXCEPT !.result = Merge(@, c.res.map)])
           /\ hist' = IF c.loaded = <<>> THEN hist ELSE Forget(hist, Range(c.missingKeys))
    /\ UNCHANGED <<cache, memory, remote, sf, ops, loads>>

(***************************************************************************)
(* MSet (cache.go, LayeredCache.MSet).                                     *)
(***************************************************************************)
StartMSet(p, keyValues, config) ==
    /\ pc[p] = "idle" /\ ops < MaxOps
    /\ ops' = ops + 1
    /\ LET c0 == [NoCall EXCEPT !.op = "MSet", !.opts = config,
                                !.ttl = calculateSetTTL(cache, config)]
           failed == {k \in DOMAIN keyValues : Marshal(keyValues[k]).err # nil}
       IN  IF validateSetOptions(config) # nil
           THEN Return(p, [c0 EXCEPT !.err = validateSetOptions(config)])
           ELSE IF failed # {}
           THEN Return(p, [c0 EXCEPT !.err = Marshal(keyValues[CHOOSE k \in failed : TRUE]).err])
           ELSE /\ SetCall(p, [c0 EXCEPT !.values =
                                 [k \in DOMAIN keyValues |-> Marshal(keyValues[k]).data]])
                /\ Goto(p, IF cache.memory THEN "MSet_memory" ELSE "MSet_remote")
    /\ hist' = Forget(hist, DOMAIN keyValues)
    /\ UNCHANGED <<cache, memory, remote, sf, loads>>

MSet_memory(p) ==
    /\ pc[p] = "MSet_memory"
    /\ \E admitted \in Admissions(call[p].values) :
        LET c == Did([call[p] EXCEPT !.fault = admitted # DOMAIN call[p].values],
                     "memory.MSet", call[p].values, call[p].ttl.memoryTTL, admitted)
        IN  /\ memory' = MemoryMSet(memory, c.values, c.ttl.memoryTTL, admitted)
            /\ IF cache.remote
               THEN SetCall(p, c) /\ Goto(p, "MSet_remote")
               ELSE Return(p, c)
    /\ UNCHANGED <<cache, remote, sf, ops, hist, loads>>

MSet_remote(p) ==
    /\ pc[p] = "MSet_remote"
    /\ \E err \in RemoteErrors :
        /\ remote' = IF err = nil
                     THEN RemoteMSet(remote, call[p].values, call[p].ttl.remoteTTL)
                     ELSE remote
        /\ Return(p, Did([call[p] EXCEPT !.err = err], "remote.MSet", call[p].values,
                         call[p].ttl.remoteTTL, err))
    /\ UNCHANGED <<cache, memory, sf, ops, hist, loads>>

(***************************************************************************)
(* The callers' inputs.                                                    *)
(***************************************************************************)
\* The values callers store and loaders return: strings (one empty, one spelled
\* like the absence marker), raw bytes, a struct.
Values == {Str("v1"), Str(""), Str(notFoundPlaceholder), Raw("v2"), Obj("o1")}

\* What a loader answers: a value, a nil value, not-found, another error.
LoaderOutcomes ==
    [err : {nil}, value : Values \cup {NilValue}]
        \cup [err : {ErrNotFound, ErrLoader, ErrLoaderTimeout}, value : {NilValue}]

\* The targets of Get: a fresh string, a string variable that holds an earlier
\* value, a fresh struct.
Targets == {Str(""), Str("old"), Obj("")}

\* The per-call absence TTL of the calls that pass WithCacheNotFound.
CallCacheNotFoundTTL == DefaultCacheNotFoundTTL + 1

\* The options of a Get: with or without loader, with or without WithCacheNotFound.
GetConfigs ==
    LET base == {newGetOptions, WithLoader(newGetOptions)}
    IN  base \cup {WithCacheNotFound(cfg, flag, CallCacheNotFoundTTL) :
                        cfg \in base, flag \in BOOLEAN}

\* The keys of the single-key calls.
SingleKeys == {"a"}

\* The key lists of MGet.
KeyLists == {<<"a", "b", "c">>, <<"a">>, <<"c">>}

\* The targets of MGet: a pointer to a map of strings, empty or with an entry of an
\* earlier call.
MapTargets ==
    [t : {"pointerToMap"}, m : {EmptyMap, [z \in {"z"} |-> Str("old")]}, elem : {"string"}]

\* The options of an MGet.
MGetConfigs ==
    {newGetOptions, WithBatchLoader(newGetOptions),
     WithCacheNotFound(WithBatchLoader(newGetOptions), TRUE, CallCacheNotFoundTTL)}

\* What a batch loader answers for the keys it is given: a value for every key; a
\* value for every key but one, which gets a nil value or no entry; a nil value
\* for every key; no entry at all; for every key a string spelled like the
\* absence marker; or an error.
BatchValues == {Str("v1"), NilValue}

BatchOutcomes(keys) ==
    LET K == Range(keys)
    IN  {[err |-> nil, values |-> [k \in K |-> v]] : v \in BatchValues}
            \cup {[err |-> nil,
                   values |-> [k \in K |-> IF k = x THEN NilValue ELSE Str("v1")]] : x \in K}
            \cup {[err |-> nil, values |-> [k \in K \ {x} |-> Str("v1")]] : x \in K}
            \cup {[err |-> nil, values |-> EmptyMap]}
            \cup {[err |-> nil, values |-> [k \in K |-> Str(notFoundPlaceholder)]]}
            \cup [err : {ErrNotFound, ErrLoader}, values : {EmptyMap}]

\* The maps MSet is called with.
KeyValues == {[k \in {"a"} |-> Str("v1")], [k \in {"a", "b"} |-> Raw("v2")]}

\* What the remote store holds when the cache is built: it is shared, and outlives
\* the process.
RemoteInits ==
    {EmptyMap,
     [k \in {"a"} |-> Entry("v1", DefaultRemoteTTL)],
     [k \in {"a"} |-> Entry(notFoundPlaceholder, DefaultCacheNotFoundTTL)],
     [k \in {"a", "b"} |-> Entry("v1", DefaultRemoteTTL)]}

(***************************************************************************)
(* NewCache (cache.go): an instance for every option set validateOptions   *)
(* accepts.                                                                *)
(***************************************************************************)
NewCache(config) ==
    [defaultMemoryTTL |-> config.defaultMemoryTTL, defaultRemoteTTL |-> config.defaultRemoteTTL,
     defaultCacheNotFound |-> config.defaultCacheNotFound,
     defaultCacheNotFoundTTL |-> config.defaultCacheNotFoundTTL,
     memory |-> config.memoryAdapter,
     remote |-> config.remoteAdapter]

Init ==
    /\ cache \in {NewCache(config) : config \in {o \in Options : validateOptions(o) = nil}}
    /\ memory = EmptyMap
    /\ remote \in IF cache.remote THEN RemoteInits ELSE {EmptyMap}
    /\ sf = EmptyMap
    /\ pc = [p \in Procs |-> "idle"]
    /\ call = [p \in Procs |-> NoCall]
    /\ ops = 0
    /\ hist = [k \in Keys |-> NoEvent]
    /\ loads = EmptyMap

\* The steps of Set, Delete and Get, and of the single-key load.
SingleStep(p) ==
    \/ Set_memory(p) \/ Set_remote(p)
    \/ Delete_memory(p) \/ Delete_remote(p)
    \/ Get_memory(p) \/ Get_remote(p) \/ Get_writeback(p) \/ Get_sf(p)
    \/ \E o \in LoaderOutcomes : Load_call(p, o.value, o.err)
    \/ Load_memory(p) \/ Load_remote(p)
    \/ Get_return(p)

\* The steps of MSet and MGet, and of the batch load.
BatchStep(p) ==
    \/ MSet_memory(p) \/ MSet_remote(p)
    \/ MGet_memory(p) \/ MGet_remote(p) \/ MGet_writeback(p) \/ MGet_sf(p)
    \/ \E o \in BatchOutcomes(call[p].missingKeys) : Batch_call(p, o.values, o.err)
    \/ Batch_memory(p) \/ Batch_remote(p) \/ Batch_missMemory(p) \/ Batch_missRemote(p)
    \/ MGet_return(p)

\* A goroutine issues a single-key call.
StartSingle(p) ==
    \/ \E key \in SingleKeys, value \in Values : StartSet(p, key, value, newSetOptions)
    \/ \E key \in SingleKeys : StartDelete(p, key)
    \/ \E key \in SingleKeys, config \in GetConfigs, target \in Targets :
            StartGet(p, key, config, target)

\* A goroutine issues a batch call.
StartBatch(p) ==
    \/ \E keyValues \in KeyValues : StartMSet(p, keyValues, newSetOptions)
    \/ \E keys \in KeyLists, config \in MGetConfigs, target \in MapTargets :
            StartMGet(p, keys, config, target)

Expire == \E k \in Keys : ExpireMemory(k) \/ ExpireRemote(k)

\* No call is in progress.
Quiet == \A p \in Procs : pc[p] = "idle"

\* One goroutine issues single-key calls: they do not overlap, and entries leave
\* the tiers between calls.
Next ==
    \/ \E p \in SeqProcs : StartSingle(p) \/ SingleStep(p) \/ Sf_done(p) \/ Leave(p)
    \/ Quiet /\ Expire

Spec == Init /\ [][Next]_vars

\* One goroutine issues batch calls: they do not overlap.
NextBatch == \E p \in SeqProcs : StartBatch(p) \/ BatchStep(p) \/ Sf_done(p) \/ Leave(p)

SpecBatch == Init /\ [][NextBatch]_vars

(***************************************************************************)
(* Concurrent callers: every goroutine issues Get and MGet calls with      *)
(* loaders on a cache whose tiers start empty; the calls overlap freely.   *)
(***************************************************************************)
\* What the loaders of the concurrent callers answer.
ConcLoaderOutcomes ==
    [err : {nil}, value : {Str("v1"), Str("v2")}]
        \cup [err : {ErrNotFound, ErrLoader}, value : {NilValue}]

ConcBatchOutcomes(keys) ==
    {[err |-> nil, values |-> [k \in Range(keys) |-> v]] : v \in {Str("v1"), Str("v2"), NilValue}}
        \cup [err : {ErrLoader}, values : {EmptyMap}]

ConcGetConfigs ==
    {WithLoader(newGetOptions),
     WithCacheNotFound(WithLoader(newGetOptions), TRUE, CallCacheNotFoundTTL)}

ConcMGetConfigs ==
    {WithBatchLoader(newGetOptions),
     WithCacheNotFound(WithBatchLoader(newGetOptions), TRUE, CallCacheNotFoundTTL)}

ConcKeyLists == {<<"a">>}

InitConc == Init /\ remote = EmptyMap /\ ~cache.defaultCacheNotFound

StartConc(p) ==
    \E config \in ConcGetConfigs : StartGet(p, "a", config, Str(""))

StepConc(p) ==
    \/ Get_memory(p) \/ Get_remote(p) \/ Get_writeback(p) \/ Get_sf(p)
    \/ \E o \in ConcLoaderOutcomes : Load_call(p, o.value, o.err)
    \/ Load_memory(p) \/ Load_remote(p)
    \/ Get_return(p)

NextConc == \E p \in Procs : StartConc(p) \/ StepConc(p) \/ Sf_done(p) \/ Leave(p)

SpecConc == InitConc /\ [][NextConc]_vars

StartConcBatch(p) ==
    \E keys \in ConcKeyLists, config \in ConcMGetConfigs :
        StartMGet(p, keys, config, [t |-> "pointerToMap", m |-> EmptyMap, elem |-> "string"])

StepConcBatch(p) ==
    \/ MGet_memory(p) \/ MGet_remote(p) \/ MGet_writeback(p) \/ MGet_sf(p)
    \/ \E o \in ConcBatchOutcomes(call[p].missingKeys) : Batch_call(p, o.values, o.err)
    \/ Batch_memory(p) \/ Batch_remote(p) \/ Batch_missMemory(p) \/ Batch_missRemote(p)
    \/ MGet_return(p)

NextConcBatch ==
    \E p \in Procs : StartConcBatch(p) \/ StepConcBatch(p) \/ Sf_done(p) \/ Leave(p)

SpecConcBatch == InitConc /\ [][NextConcBatch]_vars

(***************************************************************************)
(* Readers: one goroutine issues Get and MGet calls without loaders on      *)
(* tiers that lose entries between calls.                                  *)
(***************************************************************************)
StartRead(p) ==
    \/ \E key \in SingleKeys, target \in Targets : StartGet(p, key, newGetOptions, target)
    \/ \E keys \in KeyLists, target \in MapTargets : StartMGet(p, keys, newGetOptions, target)

StepRead(p) ==
    \/ Get_memory(p) \/ Get_remote(p) \/ Get_writeback(p)
    \/ MGet_memory(p) \/ MGet_remote(p) \/ MGet_writeback(p)

NextRead ==
    \/ \E p \in SeqProcs : StartRead(p) \/ StepRead(p) \/ Leave(p)
    \/ Quiet /\ Expire

SpecRead == Init /\ [][NextRead]_vars

\* Get and MGet calls with loaders overlapping one another.
NextCoalesce ==
    \E p \in Procs : \/ StartConc(p) \/ StepConc(p)
                     \/ StartConcBatch(p) \/ StepConcBatch(p)
                     \/ Sf_done(p) \/ Leave(p)

SpecCoalesce == InitConc /\ [][NextCoalesce]_vars

(***************************************************************************)
(* Fair scheduling: goroutines issue Get and MGet calls with loaders that  *)
(* overlap; a goroutine that is inside a call and can take its next step   *)
(* (a store call or a loader invocation that returns, the end of an        *)
(* execution in the singleflight group, the return of the call) eventually *)
(* takes it.  Nothing obliges a goroutine to issue a call.                 *)
(***************************************************************************)
StartLive(p) ==
    \/ StartGet(p, "a", WithCacheNotFound(WithLoader(newGetOptions), TRUE, CallCacheNotFoundTTL),
                Str(""))
    \/ StartMGet(p, <<"a">>,
                 WithCacheNotFound(WithBatchLoader(newGetOptions), TRUE, CallCacheNotFoundTTL),
                 [t |-> "pointerToMap", m |-> EmptyMap, elem |-> "string"])

\* The loaders answer a value or nil.
StepLive(p) ==
    \/ Get_memory(p) \/ Get_remote(p) \/ Get_writeback(p) \/ Get_sf(p)
    \/ \E v \in BatchValues : Load_call(p, v, nil)
    \/ Load_memory(p) \/ Load_remote(p) \/ Get_return(p)
    \/ MGet_memory(p) \/ MGet_remote(p) \/ MGet_writeback(p) \/ MGet_sf(p)
    \/ \E v \in BatchValues : Batch_call(p, [k \in Range(call[p].missingKeys) |-> v], nil)
    \/ Batch_memory(p) \/ Batch_remote(p) \/ Batch_missMemory(p) \/ Batch_missRemote(p)
    \/ MGet_return(p)

NextLive == \E p \in Procs : StartLive(p) \/ StepLive(p) \/ Sf_done(p) \/ Leave(p)

\* The cache has both tiers, so that every store call of the code is a step.
InitLive == InitConc /\ cache.memory /\ cache.remote

FairLive ==
    /\ InitLive /\ [][NextLive]_vars
    /\ \A p \in Procs : WF_vars(StepLive(p) \/ Sf_done(p))

(***************************************************************************)
(* Different keys: each goroutine issues Get calls, with and without       *)
(* loader, for a key of its own.  The second goroutine is scheduled        *)
(* fairly; the first may stop anywhere, so a load it started may stay in   *)
(* flight for ever.                                                        *)
(***************************************************************************)
OwnKey == <<"a", "b">>

\* The first goroutine loads its key; the second issues any Get for its own.
StartOwnKey(p) ==
    \E config \in (IF p = 1 THEN {WithLoader(newGetOptions)}
                             ELSE ConcGetConfigs \cup {newGetOptions}) :
        StartGet(p, OwnKey[p], config, Str(""))

NextOwnKeys == \E p \in Procs : StartOwnKey(p) \/ StepConc(p) \/ Sf_done(p) \/ Leave(p)

FairOwnKeys ==
    /\ InitConc /\ [][NextOwnKeys]_vars
    /\ WF_vars(StepConc(2) \/ Sf_done(2))

(***************************************************************************)
(* Properties of request coalescing.                                       *)
(***************************************************************************)
\* The calls of p and q overlapped: one was issued while the other was in progress.
Concurrent(p, q) == call[p].id \in call[q].peers \/ call[q].id \in call[p].peers

\* p and q have both returned from calls of kind op that overlapped, were issued
\* while no tier held any of their keys, and met no store failure.
ColdPair(p, q, op) ==
    /\ p # q /\ pc[p] = "returned" /\ pc[q] = "returned"
    /\ call[p].op = op /\ call[q].op = op
    /\ call[p].cold /\ call[q].cold
    /\ ~call[p].fault /\ ~call[q].fault
    /\ Concurrent(p, q)

\* C1: whenever two overlapping Get calls with a loader for the same key, absent
\* from both tiers when they were issued, have both returned a value, the loader
\* was executed exactly once by the two of them and both returned the same value.
C1_LoaderOnce ==
    \A p, q \in Procs :
        (/\ ColdPair(p, q, "Get")
         /\ call[p].key = call[q].key
         /\ call[p].opts.loader /\ call[q].opts.loader
         /\ call[p].err = nil /\ call[q].err = nil)
        => /\ Len(call[p].loaded) + Len(call[q].loaded) = 1
           /\ call[p].out = call[q].out

\* The goroutines executing the loading logic for the coalescing key: between the
\* moment Do started their function and the moment the key left the group.
Executing(key) ==
    {p \in Procs : /\ pc[p] \in {"Load_call", "Load_memory", "Load_remote", "Sf_done",
                                 "Batch_call", "Batch_memory", "Batch_remote",
                                 "Batch_missMemory", "Batch_missRemote"}
                   /\ SfKey(call[p]) = key}

\* The goroutines waiting in Do for the execution for the coalescing key to end.
Waiting(key) == {p \in Procs : pc[p] = "Sf_wait" /\ SfKey(call[p]) = key}

CoalescingKeys == Keys \cup {buildBatchKey(keys) : keys \in ConcKeyLists}

\* C2: in every reachable state, for each coalescing key at most one goroutine is
\* executing the loading logic (loadAndCache or batchLoadAndCache), and the
\* goroutines waiting on the key wait for that one.
C2_OneInFlight ==
    \A key \in CoalescingKeys :
        /\ Cardinality(Executing(key)) <= 1
        /\ \A q \in Waiting(key) : Executing(key) = {call[q].leader}

\* A goroutine waits on a key while another executes the loading logic for it.
C2_Witness ==
    \E key \in CoalescingKeys : Executing(key) # {} /\ Waiting(key) # {}

\* q has returned from a call that joined the execution run by the call p has
\* returned from, a call of the same operation.
Joined(q, p) ==
    /\ p # q /\ pc[p] = "returned" /\ pc[q] = "returned"
    /\ call[q].op = call[p].op
    /\ call[p].id # 0 /\ call[p].exec = call[p].id
    /\ call[q].exec = call[p].id

\* C3: a call that joined an execution in flight of its own operation (a Get one of
\* loadAndCache, an MGet one of batchLoadAndCache) returns what the call that ran
\* the execution returns: the same error (the not-found error included), and, the
\* two having passed equal targets, the same value or the same result map.
C3_SameOutcome ==
    \A p, q \in Procs :
        Joined(q, p)
        => /\ call[q].err = call[p].err
           /\ call[q].res = call[p].res
           /\ call[q].target = call[p].target => call[q].out = call[p].out
           /\ call[q].mtarget = call[p].mtarget => call[q].mout = call[p].mout

\* A call that joined an execution has returned the value the loader gave the
\* executing call.
C3_Witness ==
    \E p, q \in Procs :
        /\ Joined(q, p)
        /\ call[p].loaded # <<>> /\ call[q].loaded = <<>>
        /\ call[q].err = nil /\ call[q].out = Str("v1")

\* C4: whenever two overlapping MGet calls with a batch loader for the same key
\* list, every key absent from both tiers when they were issued, have both returned
\* an entry for every key, the batch loader was executed exactly once by the two of
\* them and their result maps are identical.
C4_BatchLoaderOnce ==
    \A p, q \in Procs :
        (/\ ColdPair(p, q, "MGet")
         /\ call[p].keys = call[q].keys
         /\ call[p].opts.batchLoader /\ call[q].opts.batchLoader
         /\ call[p].err = nil /\ call[q].err = nil
         /\ DOMAIN call[p].mout = Range(call[p].keys)
         /\ DOMAIN call[q].mout = Range(call[q].keys))
        => /\ Len(call[p].loaded) + Len(call[q].loaded) = 1
           /\ call[p].mout = call[q].mout

(***************************************************************************)
(* Properties of single calls and of calls that follow one another.        *)
(***************************************************************************)
\* p has returned from a Get issued when the last event on its key was ev, with
\* nothing on the key since; its options were valid and no store failed under it.
GetAfter(p, ev) ==
    /\ pc[p] = "returned" /\ call[p].op = "Get"
    /\ call[p].hist.ev = ev
    /\ validateGetOptions(call[p].opts) = nil
    /\ call[p].err # ErrRemote

\* C5: a Get without loader that follows a successful Set(k, v), nothing else having
\* touched k in between, into a target of v's type, returns v with no error, for
\* every tier configuration and every value v.
C5_RoundTrip ==
    \A p \in Procs :
        (/\ GetAfter(p, "Set")
         /\ ~call[p].opts.loader
         /\ call[p].target.t = call[p].hist.val.t)
        => call[p].err = nil /\ call[p].out = call[p].hist.val

\* Key k had a real value in L2 and no entry in L1 when the call c was issued.
OnlyInRemote(c, k) ==
    /\ cache.memory /\ cache.remote
    /\ k \notin DOMAIN c.preMemory
    /\ k \in DOMAIN c.preRemote /\ c.preRemote[k].data # notFoundPlaceholder

\* C6 (write-back): with both tiers, when a Get of k, or an MGet whose key list
\* contains k, has returned without error and L1 admitted what the call wrote, and
\* k had a real value in L2 and no entry in L1 when the call was issued, L1 holds
\* for k the bytes L2 holds.
C6_WriteBack ==
    \A p \in Procs :
        (/\ pc[p] = "returned" /\ call[p].op \in {"Get", "MGet"}
         /\ call[p].err = nil /\ ~call[p].fault)
        => \A k \in (IF call[p].op = "Get" THEN {call[p].key} ELSE Range(call[p].keys)) :
              OnlyInRemote(call[p], k)
              => /\ k \in DOMAIN memory /\ k \in DOMAIN remote
                 /\ memory[k].data = remote[k].data

\* A Get has returned a value it found in L2 only, and L1 now holds it.
C6_Witness ==
    \E p \in Procs :
        /\ pc[p] = "returned" /\ call[p].op = "Get" /\ call[p].err = nil
        /\ OnlyInRemote(call[p], call[p].key)
        /\ call[p].key \in DOMAIN memory
        /\ call[p].out = Str("v1")

\* C7 (penetration protection): a Get of k issued after a Get of k whose loader
\* signalled absence while absence caching resolved to enabled has returned,
\* nothing having written, deleted or expired k in between, returns the not-found
\* error and invokes no loader, whether it supplies one or not.
C7_AbsenceCached ==
    \A p \in Procs :
        GetAfter(p, "Absent") => call[p].err = ErrNotFound /\ call[p].loaded = <<>>

\* A Get that supplies a loader has returned not-found from the cached absence.
C7_Witness ==
    \E p \in Procs :
        /\ GetAfter(p, "Absent") /\ call[p].opts.loader
        /\ call[p].err = ErrNotFound

\* C8: a Get whose loader signalled absence while absence caching resolved to
\* disabled returns the not-found error and leaves both tiers as they were when
\* it was issued; and a Get with a loader issued after it, nothing having touched
\* the key in between, invokes its loader.
C8_AbsenceNotCached ==
    \A p \in Procs :
        /\ (/\ pc[p] = "returned" /\ call[p].op = "Get"
            /\ LoaderAbsent(call[p]) /\ ~AbsenceCaching(call[p]))
           => /\ call[p].err = ErrNotFound
              /\ memory = call[p].preMemory /\ remote = call[p].preRemote
        /\ (GetAfter(p, "Miss") /\ call[p].opts.loader)
           => call[p].loaded = <<call[p].key>>

\* A Get with a loader that followed an absence that was not cached has run its
\* loader again.
C8_Witness ==
    \E p \in Procs :
        /\ GetAfter(p, "Miss") /\ call[p].opts.loader
        /\ call[p].loaded # <<>>

\* C9: no Get returns without error a value equal to the absence marker, and no
\* MGet returns a map with an entry equal to the absence marker, whatever the tiers
\* hold and whatever the loaders return.
C9_MarkerNeverData ==
    \A p \in Procs :
        (pc[p] = "returned" /\ call[p].err = nil)
        => /\ call[p].op = "Get" => call[p].out.v # notFoundPlaceholder
           /\ call[p].op = "MGet" =>
                \A k \in DOMAIN call[p].mout : call[p].mout[k].v # notFoundPlaceholder

(***************************************************************************)
(* Properties of batch calls.                                              *)
(***************************************************************************)
\* The store held a real value for k in the snapshot.
Real(snapshot, k) == k \in DOMAIN snapshot /\ snapshot[k].data # notFoundPlaceholder

\* p has returned from MGet(["a", "b", "c"]) with a batch loader, issued, both
\* tiers configured, with "a" holding a value in L1, "b" holding a value in L2
\* only and "c" in no tier; no store call failed under it.
PartialHit(p) ==
    /\ pc[p] = "returned" /\ call[p].op = "MGet"
    /\ call[p].keys = <<"a", "b", "c">>
    /\ call[p].opts.batchLoader /\ validateGetOptions(call[p].opts) = nil
    /\ cache.memory /\ cache.remote
    /\ Real(call[p].preMemory, "a")
    /\ "b" \notin DOMAIN call[p].preMemory /\ Real(call[p].preRemote, "b")
    /\ "c" \notin DOMAIN call[p].preMemory \cup DOMAIN call[p].preRemote
    /\ call[p].err # ErrRemote

\* The batch loader of the call of p answered a value for "c".
Resolved(p) ==
    /\ call[p].answers.err = nil
    /\ "c" \in DOMAIN call[p].answers.values
    /\ call[p].answers.values["c"] # NilValue

\* C10 (batch partial hit): an MGet(["a", "b", "c"]) with "a" in L1, "b" in L2 only
\* and "c" in no tier invokes its batch loader exactly once, with the key list
\* ["c"], and, the loader having answered a value for "c", returns without error
\* exactly the entries of "a", "b" and "c": what L1 held, what L2 held, what the
\* loader answered.
C10_PartialHit ==
    \A p \in Procs :
        PartialHit(p)
        => /\ call[p].loaded = << <<"c">> >>
           /\ Resolved(p)
              => /\ call[p].err = nil
                 /\ call[p].mout = [k \in {"a", "b", "c"} |->
                        CASE k = "a" -> Str(call[p].preMemory["a"].data)
                          [] k = "b" -> Str(call[p].preRemote["b"].data)
                          [] OTHER   -> call[p].answers.values["c"]]

\* Such an MGet has returned the three entries.
C10_Witness ==
    \E p \in Procs :
        /\ PartialHit(p) /\ Resolved(p)
        /\ DOMAIN call[p].mout = {"a", "b", "c"}
        /\ call[p].mout["c"] = Str("v1")

(***************************************************************************)
(* Construction.  NewCache (cache.go) applies the options to newOptions    *)
(* and returns what applyOptions (options.go) returns: no instance and the *)
(* error of validateOptions, or the instance.                              *)
(***************************************************************************)
\* The durations a caller may pass: the default, zero, a negative one.
InvalidTTLs == {0, -1}

\* What the With... configuration options make of newOptions.
AllOptions ==
    [memoryAdapter : BOOLEAN, remoteAdapter : BOOLEAN,
     defaultMemoryTTL : {DefaultMemoryTTL} \cup InvalidTTLs,
     defaultRemoteTTL : {DefaultRemoteTTL} \cup InvalidTTLs,
     defaultCacheNotFound : BOOLEAN,
     defaultCacheNotFoundTTL : {DefaultCacheNotFoundTTL} \cup InvalidTTLs]

\* The nil Cache.
NoInstance == <<>>

applyOptions(config) == validateOptions(config)

InitNew ==
    /\ cache = NoInstance
    /\ memory = EmptyMap /\ remote = EmptyMap /\ sf = EmptyMap
    /\ pc = [p \in Procs |-> "idle"]
    /\ call = [p \in Procs |-> NoCall]
    /\ ops = 0
    /\ hist = [k \in Keys |-> NoEvent]
    /\ loads = EmptyMap

\* NewCache(opts...) is called.
StartNewCache(p) ==
    /\ pc[p] = "idle" /\ cache = NoInstance
    /\ \E config \in AllOptions :
          SetCall(p, Put([NoCall EXCEPT !.op = "NewCache"], "config", config))
    /\ Goto(p, "NewCache")
    /\ UNCHANGED <<cache, memory, remote, sf, ops, hist, loads>>

\* if err := applyOptions(config, opts...); err != nil { return nil, err }
\* return cache, nil
NewCache_return(p) ==
    /\ pc[p] = "NewCache"
    /\ LET err == applyOptions(call[p].config) IN
          /\ cache' = IF err # nil THEN NoInstance ELSE NewCache(call[p].config)
          /\ Return(p, [call[p] EXCEPT !.err = err])
    /\ UNCHANGED <<memory, remote, sf, ops, hist, loads>>

\* One goroutine constructs the cache, again after a failure.
NextNew == \E p \in SeqProcs : StartNewCache(p) \/ NewCache_return(p) \/ Leave(p)

SpecNew == InitNew /\ [][NextNew]_vars

\* The conditions of a configuration that do not hold, by the error each has.
Violated(o) ==
    (IF ~o.memoryAdapter /\ ~o.remoteAdapter THEN {ErrAdapterRequired} ELSE {})
    \cup (IF o.memoryAdapter /\ o.defaultMemoryTTL <= 0
          THEN {ErrInvalidMemoryExpireTime} ELSE {})
    \cup (IF o.remoteAdapter /\ o.defaultRemoteTTL <= 0
          THEN {ErrInvalidRedisExpireTime} ELSE {})
    \cup (IF o.defaultCacheNotFound /\ o.defaultCacheNotFoundTTL <= 0
          THEN {ErrInvalidCacheNotFondTTL} ELSE {})

\* C12: NewCache returns an instance, and no error, exactly when at least one tier
\* is configured, the default memory TTL is positive if L1 is configured, the
\* default remote TTL is positive if L2 is configured, and the default absence TTL
\* is positive if absence caching is enabled by default; otherwise it returns no
\* instance and the error of a condition that does not hold.
C12_NewCacheValidates ==
    \A p \in Procs :
        pc[p] = "returned" /\ call[p].op = "NewCache"
        => LET bad == Violated(call[p].config) IN
           /\ (DOMAIN cache # {}) <=> (bad = {})
           /\ (call[p].err = nil) <=> (bad = {})
           /\ bad # {} => call[p].err \in bad
           /\ bad = {} => cache = NewCache(call[p].config)

\* NewCache has refused an L2-only configuration for its default remote TTL alone.
C12_Witness ==
    \E p \in Procs :
        /\ pc[p] = "returned" /\ call[p].op = "NewCache"
        /\ Violated(call[p].config) = {ErrInvalidRedisExpireTime}
        /\ ~call[p].config.memoryAdapter
        /\ call[p].err = ErrInvalidRedisExpireTime /\ cache = NoInstance

\* The requested keys of the MGet call c that resolve to a real value: a key L1
\* held resolves to what L1 held; else a key L2 held resolves to what L2 held;
\* else the key resolves to what the batch loader, if any, answered for it.
ResolvedKeys(c) ==
    {k \in Range(c.keys) :
        IF cache.memory /\ k \in DOMAIN c.preMemory
        THEN c.preMemory[k].data # notFoundPlaceholder
        ELSE IF cache.remote /\ k \in DOMAIN c.preRemote
        THEN c.preRemote[k].data # notFoundPlaceholder
        ELSE /\ c.opts.batchLoader
             /\ k \in DOMAIN c.answers.values
             /\ c.answers.values[k] # NilValue}

\* p has returned from an MGet with valid options, a valid target holding no entry
\* for a requested key, under which no store call and no batch loader returned an
\* error.
MGetUnfailed(p) ==
    /\ pc[p] = "returned" /\ call[p].op = "MGet"
    /\ validateGetOptions(call[p].opts) = nil
    /\ validateMGetTarget(call[p].mtarget) = nil
    /\ DOMAIN call[p].mtarget.m \cap Range(call[p].keys) = {}
    /\ call[p].err # ErrRemote
    /\ call[p].answers.err = nil

\* C11: an MGet under which no store call and no batch loader returned an error
\* returns no error, and its output map holds an entry for exactly those requested
\* keys that resolved to a real value (in L1, in L2, or non-nil from the batch
\* loader); the other requested keys are absent from it.
C11_AbsentKeysOmitted ==
    \A p \in Procs :
        MGetUnfailed(p)
        => /\ call[p].err = nil
           /\ DOMAIN call[p].mout \cap Range(call[p].keys) = ResolvedKeys(call[p])

\* An MGet has returned an entry for a key it found and none for a key its batch
\* loader answered nil for.
C11_Witness ==
    \E p \in Procs :
        /\ MGetUnfailed(p) /\ call[p].keys = <<"a", "b", "c">>
        /\ call[p].loaded # <<>>
        /\ "a" \in DOMAIN call[p].mout
        /\ "c" \in DOMAIN call[p].answers.values /\ call[p].answers.values["c"] = NilValue
        /\ "c" \notin DOMAIN call[p].mout

(***************************************************************************)
(* Validation of a call's arguments: one goroutine issues Get, MGet, Set   *)
(* and MSet calls with TTL overrides and absence TTLs that are positive,    *)
(* zero or negative, and MGet calls with targets of every shape.            *)
(***************************************************************************)
\* The durations a call may pass: a positive one that is none of the defaults,
\* zero, a negative one.
PerCallTTLs == {CallCacheNotFoundTTL} \cup InvalidTTLs

\* cfg, and cfg with a TTL option: either TTL positive, zero or negative, or both
\* TTLs zero or negative.
TTLOverrides(cfg) ==
    {cfg} \cup {WithMemoryTTL(cfg, m) : m \in PerCallTTLs}
          \cup {WithRemoteTTL(cfg, r) : r \in PerCallTTLs}
          \cup {WithTTL(cfg, m, r) : m \in InvalidTTLs, r \in InvalidTTLs}

\* cfg, and cfg with a WithCacheNotFound option: absence caching enabled with an
\* absence TTL positive, zero or negative, or disabled with an absence TTL of zero.
AbsenceOverrides(cfg) ==
    {cfg} \cup {WithCacheNotFound(cfg, TRUE, t) : t \in PerCallTTLs}
          \cup {WithCacheNotFound(cfg, FALSE, 0)}

SetOverrides == TTLOverrides(newSetOptions)

GetOverrides ==
    UNION {AbsenceOverrides(cfg) :
              cfg \in TTLOverrides(newGetOptions) \cup TTLOverrides(WithLoader(newGetOptions))}

MGetOverrides ==
    UNION {AbsenceOverrides(cfg) :
              cfg \in TTLOverrides(newGetOptions)
                        \cup TTLOverrides(WithBatchLoader(newGetOptions))}

\* The targets of MGet, of every shape validateMGetTarget tells apart.
AnyTargets ==
    [t : {"nil", "notPointer", "pointerToNotMap", "pointerToMapOfIntKeys", "pointerToMap"},
     m : {EmptyMap}, elem : {"string"}]
        \cup {[t |-> "pointerToMap", m |-> [z \in {"z"} |-> Str("old")], elem |-> "string"]}

\* The key lists of these MGet calls, the empty one among them.
AnyKeyLists == {<<>>, <<"a">>}

StartValidated(p) ==
    \/ \E config \in SetOverrides : StartSet(p, "a", Str("v1"), config)
    \/ \E config \in SetOverrides : StartMSet(p, [k \in {"a"} |-> Str("v1")], config)
    \/ \E config \in GetOverrides : StartGet(p, "a", config, Str(""))
    \/ \E keys \in AnyKeyLists, config \in MGetOverrides :
            StartMGet(p, keys, config, [t |-> "pointerToMap", m |-> EmptyMap, elem |-> "string"])
    \/ \E keys \in AnyKeyLists, target \in AnyTargets,
            config \in {newGetOptions, WithBatchLoader(newGetOptions),
                        WithMemoryTTL(WithBatchLoader(newGetOptions), 0)} :
            StartMGet(p, keys, config, target)

StepValidated(p) ==
    \/ Set_memory(p) \/ Set_remote(p) \/ MSet_memory(p) \/ MSet_remote(p)
    \/ Get_memory(p) \/ Get_remote(p) \/ Get_writeback(p) \/ Get_sf(p)
    \/ \E o \in {[err |-> nil, value |-> Str("v1")], [err |-> ErrNotFound, value |-> NilValue]} :
            Load_call(p, o.value, o.err)
    \/ Load_memory(p) \/ Load_remote(p) \/ Get_return(p)
    \/ MGet_memory(p) \/ MGet_remote(p) \/ MGet_writeback(p) \/ MGet_sf(p)
    \/ \E v \in BatchValues :
            Batch_call(p, [k \in Range(call[p].missingKeys) |-> v], nil)
    \/ Batch_memory(p) \/ Batch_remote(p) \/ Batch_missMemory(p) \/ Batch_missRemote(p)
    \/ MGet_return(p)

NextValidate ==
    \E p \in SeqProcs : StartValidated(p) \/ StepValidated(p) \/ Sf_done(p) \/ Leave(p)

SpecValidate == InitConc /\ [][NextValidate]_vars

\* A per-call duration was given and is not positive.
NonPositive(ttl) == ttl # <<>> /\ ttl[1] <= 0

\* p has returned from a call that takes per-call TTL options.
ReturnedFrom(p, operations) == pc[p] = "returned" /\ call[p].op \in operations

TTLErrors == {ErrInvalidMemoryExpireTime, ErrInvalidRedisExpireTime, ErrInvalidCacheNotFondTTL}

\* In this step the call of p returns one of the errors in errs.
Fails(p, operations, errs) ==
    /\ pc[p] # "returned" /\ pc'[p] = "returned"
    /\ call'[p].op \in operations /\ call'[p].err \in errs

\* The step in which p issues its call is the step in which the call returns: no
\* store step and no loader step of the call lies in between, and the step itself
\* leaves the tiers, the count of loader invocations and the coalescing registry
\* as they were.
NoIO(p) ==
    /\ pc[p] = "idle"
    /\ memory' = memory /\ remote' = remote /\ loads' = loads /\ sf' = sf
    /\ call'[p].loaded = <<>>

\* C14: a Get, MGet, Set or MSet that returns a TTL validation error has issued no
\* read, write or delete to L1 or L2 and has invoked no loader or batch loader,
\* whether or not the key is cached.
C14_RejectedNoIO ==
    [][\A p \in Procs :
          Fails(p, {"Get", "MGet", "Set", "MSet"}, TTLErrors) => NoIO(p)]_vars

\* A Get with a loader has been rejected for its absence TTL while both tiers held
\* its key.
C14_Witness ==
    \E p \in Procs :
        /\ ReturnedFrom(p, {"Get"}) /\ call[p].err = ErrInvalidCacheNotFondTTL
        /\ call[p].opts.loader
        /\ call[p].key \in DOMAIN memory /\ call[p].key \in DOMAIN remote

\* The target of an MGet is nil, not a pointer, a pointer to something that is not
\* a map, or a pointer to a map whose keys are not strings.
InvalidTarget(target) ==
    target.t \in {"nil", "notPointer", "pointerToNotMap", "pointerToMapOfIntKeys"}

\* No per-call duration of the options is zero or negative.
ValidTTLs(o) ==
    ~NonPositive(o.memoryTTL) /\ ~NonPositive(o.remoteTTL) /\ ~NonPositive(o.cacheNotFoundTTL)

\* C15 (as the code has it): an MGet with valid options, a key list that is not
\* empty and a structurally invalid target fails with the invalid-target error as
\* soon as it is issued: no store is read or written and no batch loader is
\* invoked by the call.
C15_InvalidTargetNonEmpty ==
    [][\A p \in Procs :
          (/\ pc[p] = "idle" /\ pc'[p] # "idle" /\ call'[p].op = "MGet"
           /\ ValidTTLs(call'[p].opts)
           /\ Len(call'[p].keys) > 0
           /\ InvalidTarget(call'[p].mtarget))
          => /\ Fails(p, {"MGet"}, {ErrInvalidMGetTarget})
             /\ NoIO(p)]_vars

\* C15 (as stated): for every key list, an MGet with valid options and a
\* structurally invalid target returns the invalid-target error.
C15_InvalidTargetAlways ==
    \A p \in Procs :
        (/\ ReturnedFrom(p, {"MGet"})
         /\ ValidTTLs(call[p].opts)
         /\ InvalidTarget(call[p].mtarget))
        => call[p].err = ErrInvalidMGetTarget

\* An MGet with a batch loader and a nil target has failed with the invalid-target
\* error while L1 held its key.
C15_Witness ==
    \E p \in Procs :
        /\ ReturnedFrom(p, {"MGet"}) /\ call[p].keys = <<"a">>
        /\ call[p].opts = WithBatchLoader(newGetOptions)
        /\ call[p].mtarget.t = "nil"
        /\ "a" \in DOMAIN memory
        /\ call[p].err = ErrInvalidMGetTarget /\ call[p].loaded = <<>>

\* C16: on every tier configuration, when Delete(k) has returned without error
\* no tier holds an entry for k, and a Get(k) without loader that follows it, with
\* no other operation on k in between, returns the not-found error and leaves its
\* target alone; a Delete of a key that no tier holds returns without error unless
\* the remote store fails.
C16_DeleteThenNotFound ==
    \A p \in Procs :
        /\ ReturnedFrom(p, {"Delete"}) /\ call[p].err = nil
           => call[p].key \notin DOMAIN memory \cup DOMAIN remote
        /\ GetAfter(p, "Delete") /\ ~call[p].opts.loader
           => call[p].err = ErrNotFound /\ call[p].out = call[p].target
        /\ (/\ ReturnedFrom(p, {"Delete"})
            /\ call[p].key \notin DOMAIN call[p].preMemory \cup DOMAIN call[p].preRemote
            /\ call[p].err # ErrRemote)
           => call[p].err = nil

\* On a cache with both tiers, a Get without loader has returned not-found after
\* the Delete of a key that a tier held.
C16_Witness ==
    \E p \in Procs :
        /\ GetAfter(p, "Delete") /\ ~call[p].opts.loader
        /\ cache.memory /\ cache.remote
        /\ call[p].hist.val # NilValue
        /\ call[p].err = ErrNotFound

\* C17: when the loader of a Get returns an error other than not-found, the Get
\* returns that very error, leaves its target alone, and the tiers hold when it
\* returns what they held when it was issued.
C17_LoaderErrorPassedThrough ==
    \A p \in Procs :
        (/\ ReturnedFrom(p, {"Get"}) /\ call[p].loaded # <<>>
         /\ call[p].answer.err \notin {nil, ErrNotFound})
        => /\ call[p].err = call[p].answer.err
           /\ call[p].out = call[p].target
           /\ memory = call[p].preMemory /\ remote = call[p].preRemote

\* On a cache with both tiers that caches absences, a Get has returned the timeout
\* error of its loader.
C17_Witness ==
    \E p \in Procs :
        /\ ReturnedFrom(p, {"Get"}) /\ call[p].loaded = <<<<"a">>>>
        /\ cache.memory /\ cache.remote /\ AbsenceCaching(call[p])
        /\ call[p].answer.err = ErrLoaderTimeout
        /\ call[p].err = ErrLoaderTimeout

\* C18: when a Get that found its key in no tier has returned without error the
\* value its loader answered, every configured tier holds the serialized value
\* (L1 having admitted it), and a Get of the key without loader that follows, the
\* entry still being there, returns that value and invokes no loader.
C18_LoadedThenServed ==
    \A p \in Procs :
        /\ (/\ ReturnedFrom(p, {"Get"}) /\ LoaderPresent(call[p]) /\ call[p].cold
            /\ call[p].err = nil /\ ~call[p].fault)
           => /\ cache.memory => /\ call[p].key \in DOMAIN memory
                                 /\ memory[call[p].key].data = Marshal(call[p].answer.value).data
              /\ cache.remote => /\ call[p].key \in DOMAIN remote
                                 /\ remote[call[p].key].data = Marshal(call[p].answer.value).data
        /\ (/\ GetAfter(p, "Loaded") /\ ~call[p].opts.loader
            /\ call[p].target.t = call[p].hist.val.t)
           => /\ call[p].err = nil /\ call[p].out = call[p].hist.val
              /\ call[p].loaded = <<>>

\* C19: under fair scheduling, with every loader invocation and every store call
\* returning, every Get and every MGet that was issued returns, and every
\* goroutine waiting for an execution in flight is released and goes on to return
\* from its call.
C19_EveryCallReturns ==
    \A p \in Procs :
        /\ (pc[p] \notin {"idle", "returned"}) ~> (pc[p] = "returned")
        /\ (pc[p] = "Sf_wait") ~> (pc[p] \in {"Get_return", "MGet_return"})

\* A goroutine that waited for the batch load of another one has returned from its
\* MGet.
C19_Witness ==
    \E p \in Procs :
        /\ ReturnedFrom(p, {"MGet"})
        /\ call[p].leader # p /\ call[p].leader \in Procs
        /\ call[p].exec # call[p].id

\* C20: a Get for one key never waits for the load of another key: whatever the
\* goroutine loading key a does, and even if its load stays in flight for ever,
\* every Get for key b, scheduled fairly, returns, and is at no time waiting in the
\* singleflight group.
C20_OtherKeyNotBlocked ==
    /\ (pc[2] \notin {"idle", "returned"}) ~> (pc[2] = "returned")
    /\ [](pc[2] # "Sf_wait")

\* A Get for key b that was issued after the load for key a began, and ran its own
\* loader, has returned while the load for key a is still in flight.
C20_Witness ==
    /\ pc[1] = "Load_call" /\ call[1].key = "a" /\ "a" \in DOMAIN sf
    /\ pc[2] = "returned" /\ call[2].op = "Get" /\ call[2].key = "b"
    /\ call[1].id \in call[2].peers
    /\ call[2].loaded = <<<<"b">>>>

(***************************************************************************)
(* Properties of what a call issues to the stores and to the loaders: the  *)
(* call's io is the sequence of its store calls and loader invocations.    *)
(***************************************************************************)
EvName(e) == e[1]
EvArg(e) == e[2]
EvTTL(e) == e[3]
EvOutcome(e) == e[4]

MemoryWrites == {"memory.Set", "memory.MSet"}
RemoteWrites == {"remote.Set", "remote.MSet"}
MemoryReads == {"memory.Get", "memory.MGet"}
RemoteReads == {"remote.Get", "remote.MGet"}
LoaderCalls == {"loader", "batchLoader"}

\* The positions in the call's io of the events with a name in names.
Issued(c, names) == {i \in DOMAIN c.io : EvName(c.io[i]) \in names}

\* The write e stores the absence marker for a key.
MarkerWrite(e) ==
    /\ EvName(e) \in MemoryWrites \cup RemoteWrites
    /\ \E k \in DOMAIN EvArg(e) : EvArg(e)[k] = notFoundPlaceholder

\* C21: a Get or MGet that passes WithCacheNotFound with an absence TTL less than 0,
\* and no invalid TTL override, does not fail for its absence TTL, and every
\* absence marker it writes is written at the default absence TTL of the cache.
C21_NegativeAbsenceTTLDefaults ==
    \A p \in Procs :
        LET o == call[p].opts IN
        (/\ ReturnedFrom(p, {"Get", "MGet"})
         /\ ~NonPositive(o.memoryTTL) /\ ~NonPositive(o.remoteTTL)
         /\ o.cacheNotFoundTTL # <<>> /\ o.cacheNotFoundTTL[1] < 0)
        => /\ call[p].err # ErrInvalidCacheNotFondTTL
           /\ \A i \in DOMAIN call[p].io :
                MarkerWrite(call[p].io[i])
                => EvTTL(call[p].io[i]) = cache.defaultCacheNotFoundTTL

(***************************************************************************)
(* Calls of every kind on every cache: one goroutine issues the Set, MSet, *)
(* Get and MGet calls above on a cache of any configuration whose remote   *)
(* store holds values or an absence marker when the cache is built.        *)
(***************************************************************************)
SpecCalls == Init /\ [][NextValidate]_vars

\* The last store call of the call c was a write to L2 that failed.
RemoteWriteFailed(c) ==
    /\ c.io # <<>>
    /\ EvName(c.io[Len(c.io)]) \in RemoteWrites
    /\ EvOutcome(c.io[Len(c.io)]) # nil

\* C22: on a cache with both tiers, every write to L2 a Set, an MSet or a Get (its
\* load) issues comes right after the write of the same entries to L1; and when
\* the call has returned after an L2 write that failed, it has returned the error
\* of that write and L1 holds every entry it admitted from the call.
C22_MemoryBeforeRemote ==
    \A p \in Procs :
        LET c == call[p] IN
        (cache.memory /\ cache.remote /\ c.op \in {"Set", "MSet", "Get"})
        => /\ \A j \in Issued(c, RemoteWrites) :
                /\ j > 1
                /\ EvName(c.io[j - 1]) \in MemoryWrites
                /\ EvArg(c.io[j - 1]) = EvArg(c.io[j])
           /\ (pc[p] = "returned" /\ RemoteWriteFailed(c))
              => /\ c.err = EvOutcome(c.io[Len(c.io)])
                 /\ \A k \in EvOutcome(c.io[Len(c.io) - 1]) :
                        /\ k \in DOMAIN memory
                        /\ memory[k] = Entry(EvArg(c.io[Len(c.io)])[k],
                                             EvTTL(c.io[Len(c.io) - 1]))

\* A Get has returned the error of the L2 write of its load, and L1 holds the
\* loaded value while L2 does not.
C22_Witness ==
    \E p \in Procs :
        /\ ReturnedFrom(p, {"Get"}) /\ RemoteWriteFailed(call[p])
        /\ call[p].answer.value = Str("v1")
        /\ call[p].err = ErrRemote
        /\ call[p].key \in DOMAIN memory /\ memory[call[p].key].data = "v1"
        /\ call[p].key \notin DOMAIN remote

\* When the call c was issued L2 held the absence marker for k and L1, if there is
\* one, held no entry for k.
MarkerInRemote(c, k) ==
    /\ cache.remote
    /\ k \in DOMAIN c.preRemote /\ c.preRemote[k].data = notFoundPlaceholder
    /\ cache.memory => k \notin DOMAIN c.preMemory

\* The keys of the events of c with a name in names: the keys read or loaded, the
\* keys of the entries written.
KeysOf(c, names) ==
    UNION {IF EvName(c.io[i]) \in MemoryWrites \cup RemoteWrites
           THEN DOMAIN EvArg(c.io[i]) ELSE Range(EvArg(c.io[i])) : i \in Issued(c, names)}

\* C23: a Get or MGet with valid arguments whose L2 read did not fail and found
\* the absence marker for a key L1 did not hold writes nothing to L1 for that key
\* (L1 holds for it what it held when the call was issued), passes the key to no
\* loader, and returns the not-found error with its target untouched (Get) or a
\* map without the key (MGet).
C23_MarkerNotWrittenBack ==
    \A p \in Procs :
        LET c == call[p] IN
        /\ (/\ ReturnedFrom(p, {"Get"}) /\ validateGetOptions(c.opts) = nil
            /\ MarkerInRemote(c, c.key) /\ c.err # ErrRemote)
           => /\ c.err = ErrNotFound /\ c.out = c.target
              /\ Issued(c, MemoryWrites \cup LoaderCalls) = {}
              /\ memory = c.preMemory
        /\ (/\ ReturnedFrom(p, {"MGet"}) /\ validateGetOptions(c.opts) = nil
            /\ validateMGetTarget(c.mtarget) = nil /\ c.err # ErrRemote)
           => \A k \in Range(c.keys) :
                MarkerInRemote(c, k)
                => /\ k \notin DOMAIN c.mout
                   /\ k \notin KeysOf(c, MemoryWrites \cup LoaderCalls)
                   /\ cache.memory => k \notin DOMAIN memory

\* On a cache with both tiers, a Get with a loader has returned not-found from the
\* marker L2 held, and L1 holds nothing for the key.
C23_Witness ==
    \E p \in Procs :
        /\ ReturnedFrom(p, {"Get"}) /\ call[p].opts.loader
        /\ cache.memory /\ MarkerInRemote(call[p], call[p].key)
        /\ Issued(call[p], RemoteReads) # {}
        /\ call[p].err = ErrNotFound
        /\ call[p].key \notin DOMAIN memory

\* When the call c was issued L1 held the absence marker for k.
MarkerInMemory(c, k) ==
    cache.memory /\ k \in DOMAIN c.preMemory /\ c.preMemory[k].data = notFoundPlaceholder

\* C24: an MGet with valid arguments returns no entry for a key whose L1 entry is
\* the absence marker, does not ask L2 for it and passes it to no batch loader; it
\* returns no entry for a key L1 does not hold whose L2 entry is the marker, and
\* passes it to no batch loader.
C24_MarkerKeysLeftOut ==
    \A p \in Procs :
        LET c == call[p] IN
        (/\ ReturnedFrom(p, {"MGet"}) /\ validateGetOptions(c.opts) = nil
         /\ validateMGetTarget(c.mtarget) = nil)
        => \A k \in Range(c.keys) :
              /\ MarkerInMemory(c, k)
                 => /\ k \notin DOMAIN c.mout
                    /\ k \notin KeysOf(c, RemoteReads \cup LoaderCalls)
              /\ MarkerInRemote(c, k)
                 => /\ k \notin DOMAIN c.mout
                    /\ k \notin KeysOf(c, LoaderCalls)

\* An MGet of three keys, the first with the absence marker in L1, has read L2 and
\* invoked its batch loader for the other two and returned entries for them only.
C24_Witness ==
    \E p \in Procs :
        /\ ReturnedFrom(p, {"MGet"}) /\ call[p].keys = <<"a", "b", "c">>
        /\ MarkerInMemory(call[p], "a") /\ cache.remote
        /\ KeysOf(call[p], RemoteReads) = {"b", "c"}
        /\ call[p].loaded = << <<"b", "c">> >>
        /\ DOMAIN call[p].mout \cap Keys = {"b", "c"}

\* The batch loader of the call c ran and returned an error other than not-found.
BatchLoaderFailed(c) ==
    c.op = "MGet" /\ c.loaded # <<>> /\ c.answers.err \notin {nil, ErrNotFound}

\* C25: when the batch loader of an MGet has returned an error other than
\* not-found, the MGet returns that very error, the invocation of the loader is
\* the last thing the call issues (no write of a value or of a marker follows),
\* no tier holds an entry for a key of the missing set, and the caller's map is
\* what it was before the call, without the entries found in L1 or L2.
C25_BatchLoaderErrorAborts ==
    \A p \in Procs :
        LET c == call[p] IN
        (pc[p] = "returned" /\ BatchLoaderFailed(c))
        => /\ c.err = c.answers.err
           /\ EvName(c.io[Len(c.io)]) = "batchLoader"
           /\ \A k \in Range(c.loaded[1]) : k \notin DOMAIN memory \cup DOMAIN remote
           /\ c.mout = c.mtarget.m

\* An MGet of three keys that found an entry in a tier has returned the error of
\* its batch loader and left the caller's map, which held an older entry, as it was.
C25_Witness ==
    \E p \in Procs :
        /\ pc[p] = "returned" /\ BatchLoaderFailed(call[p])
        /\ call[p].keys = <<"a", "b", "c">> /\ call[p].result # EmptyMap
        /\ call[p].err = ErrLoader
        /\ call[p].mtarget.m # EmptyMap /\ call[p].mout = call[p].mtarget.m

\* p has returned from a Get whose loader signalled absence while absence caching
\* resolved to enabled.
AbsenceToCache(p) ==
    /\ ReturnedFrom(p, {"Get"})
    /\ LoaderAbsent(call[p]) /\ AbsenceCaching(call[p])

\* The call c has issued, after its loader, the write of the absence marker for
\* its key to every configured tier.
MarkerIssued(c) ==
    /\ cache.memory => \E i \in Issued(c, {"memory.Set"}) :
                          i > 1 /\ EvArg(c.io[i]) = One(c.key, notFoundPlaceholder)
    /\ cache.remote => \E i \in Issued(c, {"remote.Set"}) :
                          i > 1 /\ EvArg(c.io[i]) = One(c.key, notFoundPlaceholder)

Chosen(override, default) == IF override = <<>> THEN default ELSE override[1]

\* The loader of the call c ran and left a requested key k without value, unless
\* it failed: no entry or a nil entry for k (batch loader), absence (loader).
LeftAbsent(c, k) ==
    IF c.op = "MGet"
    THEN /\ c.loaded # <<>> /\ k \in Range(c.loaded[1])
         /\ c.answers.err \in {nil, ErrNotFound}
         /\ k \notin DOMAIN c.answers.values \/ c.answers.values[k] = NilValue
    ELSE c.op = "Get" /\ k = c.key /\ LoaderAbsent(c)

\* The call c has issued the write of the absence marker for k to a tier.
MarkerWritten(c, k) ==
    \E i \in Issued(c, MemoryWrites \cup RemoteWrites) :
        k \in DOMAIN EvArg(c.io[i]) /\ EvArg(c.io[i])[k] = notFoundPlaceholder

\* C27: every write of a value a call issues to L1 is at the call's memory TTL if it
\* gave one and at the default memory TTL otherwise, every write of a value to L2
\* at the call's remote TTL if it gave one and at the default remote TTL
\* otherwise; every write of an absence marker, to either tier, is at the call's
\* absence TTL if it gave one and at the default absence TTL otherwise; a marker is
\* written for a key only if absence caching, the call's flag if it gave one and
\* the default flag otherwise, is enabled, and, no store call having failed, it is
\* written for every key the loader left absent if absence caching is enabled.
C27_PolicyResolution ==
    \A p \in Procs :
        LET c == call[p] IN
        /\ \A i \in Issued(c, MemoryWrites \cup RemoteWrites) :
              EvTTL(c.io[i]) =
                 IF MarkerWrite(c.io[i])
                 THEN Chosen(c.opts.cacheNotFoundTTL, cache.defaultCacheNotFoundTTL)
                 ELSE IF EvName(c.io[i]) \in MemoryWrites
                 THEN Chosen(c.opts.memoryTTL, cache.defaultMemoryTTL)
                 ELSE Chosen(c.opts.remoteTTL, cache.defaultRemoteTTL)
        /\ ReturnedFrom(p, {"Get", "MGet"})
           => \A k \in Keys :
                /\ MarkerWritten(c, k)
                   => LeftAbsent(c, k) /\ Chosen(c.opts.cacheNotFound, cache.defaultCacheNotFound)
                /\ (/\ LeftAbsent(c, k) /\ c.err # ErrRemote
                    /\ Chosen(c.opts.cacheNotFound, cache.defaultCacheNotFound))
                   => MarkerWritten(c, k)

\* On a cache that does not cache absences by default, a Get that gave its own
\* memory TTL and switched absence caching on with its own absence TTL has left
\* the marker in both tiers at that absence TTL.
C27_Witness ==
    \E p \in Procs :
        /\ ReturnedFrom(p, {"Get"}) /\ LoaderAbsent(call[p])
        /\ ~cache.defaultCacheNotFound
        /\ call[p].opts.memoryTTL # <<>>
        /\ call[p].opts.cacheNotFoundTTL = <<CallCacheNotFoundTTL>>
        /\ call[p].key \in DOMAIN memory /\ call[p].key \in DOMAIN remote
        /\ memory[call[p].key] = Entry(notFoundPlaceholder, CallCacheNotFoundTTL)
        /\ remote[call[p].key] = Entry(notFoundPlaceholder, CallCacheNotFoundTTL)

\* The keys of the call c that no configured tier held when it was issued.
StillMissing(c) ==
    {k \in Range(c.keys) : /\ cache.memory => k \notin DOMAIN c.preMemory
                           /\ cache.remote => k \notin DOMAIN c.preRemote}

\* The call c ran the batch load path, and its batch loader returned no error
\* other than not-found and no value spelled like the absence marker.
BatchLoaded(c) ==
    /\ c.op = "MGet" /\ c.loaded # <<>>
    /\ c.answers.err \in {nil, ErrNotFound}
    /\ \A k \in DOMAIN c.answers.values : c.answers.values[k].v # notFoundPlaceholder

\* The positions of the writes the call c issued after its batch loader to the tier
\* whose writes are named names: those of absence markers (marker) or of values.
WritesTo(c, names, marker) ==
    {i \in Issued(c, names) : /\ MarkerWrite(c.io[i]) = marker
                              /\ \E j \in Issued(c, {"batchLoader"}) : j < i}

\* C28: an MGet that runs the batch load path invokes the batch loader once, with
\* the list of the keys no tier held, and after it issues to each tier at most one
\* write of values, of exactly the entries the loader answered a value for, and at
\* most one write of markers, of exactly the keys the loader left without value;
\* markers are written only if absence caching is enabled; and when the load has
\* ended without a store failure, it returns exactly the values, and has written
\* the markers to every configured tier if absence caching is enabled.
C28_BatchLoadOnce ==
    \A p \in Procs :
        LET c == call[p]
            absent == {k \in Keys : LeftAbsent(c, k)}
            values == [k \in Range(c.loaded[1]) \ absent |-> c.answers.values[k].v]
            markers == [k \in absent |-> notFoundPlaceholder]
            caching == Chosen(c.opts.cacheNotFound, cache.defaultCacheNotFound)
        IN  BatchLoaded(c)
            => /\ Cardinality(Issued(c, {"batchLoader"})) = 1 /\ Len(c.loaded) = 1
               /\ Range(c.loaded[1]) = StillMissing(c)
               /\ Len(c.loaded[1]) = Cardinality(StillMissing(c))
               /\ \A names \in {MemoryWrites, RemoteWrites} :
                     /\ Cardinality(WritesTo(c, names, FALSE)) <= 1
                     /\ Cardinality(WritesTo(c, names, TRUE)) <= 1
                     /\ \A i \in WritesTo(c, names, FALSE) : EvArg(c.io[i]) = values
                     /\ \A i \in WritesTo(c, names, TRUE) :
                           EvArg(c.io[i]) = markers /\ caching
               /\ (pc[p] = "returned" /\ c.err = nil)
                  => /\ c.res = MapResult(values)
                     /\ (caching /\ absent # {})
                        => /\ cache.memory => WritesTo(c, MemoryWrites, TRUE) # {}
                           /\ cache.remote => WritesTo(c, RemoteWrites, TRUE) # {}

\* On a cache with both tiers, an MGet of three keys no tier held, whose batch
\* loader answered a value for two of them, has written the two values and the
\* marker of the third to each tier, one write each, and returned the two values.
C28_Witness ==
    \E p \in Procs :
        /\ ReturnedFrom(p, {"MGet"}) /\ BatchLoaded(call[p])
        /\ call[p].loaded = << <<"a", "b", "c">> >>
        /\ Len(call[p].io) = 7
        /\ \A names \in {MemoryWrites, RemoteWrites}, marker \in BOOLEAN :
              Cardinality(WritesTo(call[p], names, marker)) = 1
        /\ DOMAIN call[p].mout \cap Keys = {"a", "b"}
        /\ "c" \in DOMAIN memory /\ memory["c"].data = notFoundPlaceholder

\* The events of a call to L2 or to a loader: these can fail.
FallibleCalls == RemoteReads \cup RemoteWrites \cup LoaderCalls

\* The i-th event of the call c is a call to L2 or to a loader that returned an
\* error other than not-found.
FailedAt(c, i) ==
    /\ EvName(c.io[i]) \in FallibleCalls
    /\ EvOutcome(c.io[i]) \notin {nil, ErrNotFound}

\* C29: a Get issues at most one read of L1, one read of L2, one loader call and
\* one write per tier, and no other store call; an MGet issues at most one batched
\* read per tier and one batch loader call; and a call to L2 or to a loader that
\* fails is the last call the Get or MGet issues, which ends with that error.
C29_NoInternalRetry ==
    \A p \in Procs :
        LET c == call[p]
            count(name) == Cardinality(Issued(c, {name}))
        IN  /\ c.op = "Get"
               => /\ \A name \in {"memory.Get", "remote.Get", "loader",
                                  "memory.Set", "remote.Set"} : count(name) <= 1
                  /\ \A i \in DOMAIN c.io :
                        EvName(c.io[i]) \in {"memory.Get", "remote.Get", "loader",
                                             "memory.Set", "remote.Set"}
            /\ c.op = "MGet"
               => \A name \in {"memory.MGet", "remote.MGet", "batchLoader"} : count(name) <= 1
            /\ c.op \in {"Get", "MGet"}
               => \A i \in DOMAIN c.io :
                     FailedAt(c, i) => /\ i = Len(c.io)
                                       /\ pc[p] = "returned" => c.err = EvOutcome(c.io[i])

\* A Get whose loader failed has returned the loader's error after one read of
\* each tier and the one loader call, and an MGet whose L2 read failed has
\* returned L2's error after that read.
C29_Witness ==
    \E p, q \in Procs :
        /\ ReturnedFrom(p, {"Get"}) /\ call[p].err = ErrLoader
        /\ Len(call[p].io) = 3 /\ FailedAt(call[p], 3)
        /\ ReturnedFrom(q, {"MGet"}) /\ call[q].err = ErrRemote
        /\ FailedAt(call[q], Len(call[q].io))
        /\ EvName(call[q].io[Len(call[q].io)]) = "remote.MGet"

\* The L2 read of the call c failed with an error other than not-found.
RemoteReadFailed(c) ==
    \E i \in Issued(c, RemoteReads) : FailedAt(c, i)

\* C30: a Get or MGet whose L2 read fails with an error other than not-found
\* returns that error, invokes no loader and no batch loader, though one was
\* supplied, and issues no write to any tier.
C30_RemoteReadErrorEndsCall ==
    \A p \in Procs :
        LET c == call[p]
        IN  (c.op \in {"Get", "MGet"} /\ RemoteReadFailed(c))
            => /\ pc[p] = "returned"
               /\ \E i \in Issued(c, RemoteReads) : c.err = EvOutcome(c.io[i])
               /\ c.err \notin {nil, ErrNotFound}
               /\ Issued(c, LoaderCalls \cup MemoryWrites \cup RemoteWrites) = {}
               /\ c.loaded = <<>>

\* An MGet with a batch loader and a Get with a loader have each returned the
\* error of their failed L2 read, while the key is in neither tier.
C30_Witness ==
    \E p, q \in Procs :
        /\ ReturnedFrom(p, {"MGet"}) /\ RemoteReadFailed(call[p])
        /\ call[p].opts.batchLoader /\ call[p].err = ErrRemote
        /\ ReturnedFrom(q, {"Get"}) /\ RemoteReadFailed(call[q])
        /\ call[q].opts.loader /\ call[q].err = ErrRemote
        /\ memory = EmptyMap /\ remote = EmptyMap

(***************************************************************************)
(* Coalescing keys: two goroutines issue Get and MGet calls with loaders    *)
(* whose keys and key lists differ in order, or contain "," or "batch:".    *)
(***************************************************************************)
SfKeyLists == {<<"a", "b">>, <<"b", "a">>, <<"a,b">>}

StartSfKeys(p) ==
    \E keys \in SfKeyLists :
        StartMGet(p, keys, WithBatchLoader(newGetOptions),
                  [t |-> "pointerToMap", m |-> EmptyMap, elem |-> "string"])

\* The batch loader answers a value for every key or fails, and absence caching is
\* off: no marker is written.
StepSfKeys(p) ==
    \/ MGet_memory(p) \/ MGet_remote(p) \/ MGet_writeback(p) \/ MGet_sf(p)
    \/ Batch_call(p, [k \in Range(call[p].missingKeys) |-> Str("v1")], nil)
    \/ Batch_call(p, EmptyMap, ErrLoader)
    \/ Batch_memory(p) \/ Batch_remote(p)
    \/ MGet_return(p)

NextSfKeys == \E p \in Procs : StartSfKeys(p) \/ StepSfKeys(p) \/ Sf_done(p) \/ Leave(p)

SpecSfKeys == InitConc /\ [][NextSfKeys]_vars

(***************************************************************************)
(* Get and MGet on the one singleflight group of a cache: the key of the   *)
(* Get is the batch key of the MGet.                                       *)
(***************************************************************************)
SfGetKeys == {"batch:a"}

SfCrossKeyLists == {<<"a">>}

StartSfCross(p) ==
    \/ \E key \in SfGetKeys : StartGet(p, key, WithLoader(newGetOptions), Str(""))
    \/ \E keys \in SfCrossKeyLists :
            StartMGet(p, keys, WithBatchLoader(newGetOptions),
                      [t |-> "pointerToMap", m |-> EmptyMap, elem |-> "string"])

StepSfCross(p) ==
    \/ Get_memory(p) \/ Get_remote(p) \/ Get_writeback(p) \/ Get_sf(p)
    \/ \E o \in [err : {nil}, value : {Str("v1")}] \cup [err : {ErrLoader}, value : {NilValue}] :
            Load_call(p, o.value, o.err)
    \/ Load_memory(p) \/ Load_remote(p) \/ Get_return(p)
    \/ MGet_memory(p) \/ MGet_remote(p) \/ MGet_writeback(p) \/ MGet_sf(p)
    \/ Batch_call(p, [k \in Range(call[p].missingKeys) |-> Str("v1")], nil)
    \/ Batch_call(p, EmptyMap, ErrLoader)
    \/ Batch_memory(p) \/ Batch_remote(p)
    \/ MGet_return(p)

NextSfCross == \E p \in Procs : StartSfCross(p) \/ StepSfCross(p) \/ Sf_done(p) \/ Leave(p)

SpecSfCross == InitConc /\ [][NextSfCross]_vars

\* The goroutine p is inside c.sf.Do for an MGet: it executes batchLoadAndCache or
\* waits for the goroutine that does.
InBatchDo(p) ==
    /\ call[p].op = "MGet"
    /\ pc[p] \in {"Batch_call", "Batch_memory", "Batch_remote", "Batch_missMemory",
                  "Batch_missRemote", "Sf_done", "Sf_wait"}

\* The MGet calls of p and q miss the same keys, listed in a different order.
SameKeysOtherOrder(p, q) ==
    /\ Range(call[p].missingKeys) = Range(call[q].missingKeys)
    /\ Len(call[p].missingKeys) = Len(call[q].missingKeys)
    /\ call[p].missingKeys # call[q].missingKeys

\* C31: two MGet calls that are inside the coalesced section at the same time with
\* the same missing keys in a different order do not coalesce: neither waits for
\* the other, each executes the batch load itself.
C31_OtherOrderNotCoalesced ==
    \A p, q \in Procs :
        (p # q /\ InBatchDo(p) /\ InBatchDo(q) /\ SameKeysOtherOrder(p, q))
        => /\ call[p].leader = p /\ call[q].leader = q
           /\ call[p].exec # call[q].exec
           /\ pc[p] # "Sf_wait" /\ pc[q] # "Sf_wait"

\* Both batch loaders have run, for a, b and for b, a, and neither execution has
\* ended.
C31_Witness ==
    /\ InBatchDo(1) /\ InBatchDo(2)
    /\ call[1].loaded = << <<"a", "b">> >> /\ call[2].loaded = << <<"b", "a">> >>
    /\ pc[1] # "Sf_wait" /\ pc[2] # "Sf_wait"

\* The goroutine p waits in c.sf.Do for the execution of the goroutine q.
JoinedTo(p, q) == p # q /\ pc[p] = "Sf_wait" /\ call[p].leader = q

\* C35: a Get never joins the execution of an MGet nor an MGet that of a Get, and
\* no call ends in a failed conversion of a result of the other path's shape.
C35_LoadsNeverCrossCoalesce ==
    /\ \A p, q \in Procs : JoinedTo(p, q) => call[p].op = call[q].op
    /\ \A p \in Procs : call[p].err # Panic

\* C36: an MGet joins only an execution for its own list of missing keys, and a
\* successful MGet hands its caller entries of requested keys only.
C36_DistinctListsDistinctExecutions ==
    /\ \A p, q \in Procs :
          (JoinedTo(p, q) /\ call[p].op = "MGet" /\ call[q].op = "MGet")
          => call[p].missingKeys = call[q].missingKeys
    /\ \A p \in Procs :
          (ReturnedFrom(p, {"MGet"}) /\ call[p].err = nil)
          => DOMAIN call[p].mout \subseteq Range(call[p].keys)

(***************************************************************************)
(* TTLs of writes: one goroutine issues Set, MSet, Get and MGet calls with  *)
(* every per-call option on a cache of every configuration NewCache         *)
(* accepts, the ones included whose unused defaults are zero or negative.  *)
(***************************************************************************)
InitAnyCache ==
    /\ cache \in {NewCache(config) : config \in {o \in AllOptions : validateOptions(o) = nil}}
    /\ memory = EmptyMap
    /\ remote \in IF cache.remote THEN RemoteInits ELSE {EmptyMap}
    /\ sf = EmptyMap
    /\ pc = [p \in Procs |-> "idle"]
    /\ call = [p \in Procs |-> NoCall]
    /\ ops = 0
    /\ hist = [k \in Keys |-> NoEvent]
    /\ loads = EmptyMap

SpecAnyCache == InitAnyCache /\ [][NextValidate]_vars

\* C32: every write a call issues to L1 or L2 carries a TTL greater than zero.
C32_WritesHavePositiveTTL ==
    \A p \in Procs :
        \A i \in Issued(call[p], MemoryWrites \cup RemoteWrites) : EvTTL(call[p].io[i]) > 0

\* On a cache constructed with absence caching disabled and a negative default
\* absence TTL, and without L1 though with a zero default L1 TTL, a Get that
\* enables absence caching for itself has written the marker to L2.
C32_Witness ==
    \E p \in Procs :
        /\ ~cache.defaultCacheNotFound /\ cache.defaultCacheNotFoundTTL = -1
        /\ ~cache.memory /\ cache.defaultMemoryTTL = 0
        /\ ReturnedFrom(p, {"Get"})
        /\ \E i \in Issued(call[p], RemoteWrites) :
              /\ MarkerWrite(call[p].io[i])
              /\ EvTTL(call[p].io[i]) = CallCacheNotFoundTTL

(***************************************************************************)
(* The typed wrapper (typed.go): TypedCache.MGet over a key prefix and a    *)
(* list of IDs.  An ID is <<type, number, text>>: a string, an int64, or a  *)
(* value of another comparable type with the text fmt renders for it.      *)
(***************************************************************************)
separator == ":"

\* strconv.FormatInt(v, 10)
RECURSIVE FormatInt(_)
FormatInt(v) ==
    LET digits == <<"0", "1", "2", "3", "4", "5", "6", "7", "8", "9">>
    IN  IF v < 0 THEN "-" \o FormatInt(0 - v)
        ELSE IF v < 10 THEN digits[v + 1]
        ELSE FormatInt(v \div 10) \o digits[(v % 10) + 1]

\* TypedCache.buildKey
buildKey(keyPrefix, id) ==
    keyPrefix \o separator \o
        (CASE id[1] = "string" -> id[3]
           [] id[1] \in {"int", "int32", "int64"} -> FormatInt(id[2])
           [] OTHER -> id[3])

\* The keys of the IDs, in call order.
TypedKeys(keyPrefix, ids) == [i \in DOMAIN ids |-> buildKey(keyPrefix, ids[i])]

\* key2ID[key] = id for every id in call order: a later ID replaces an earlier one
\* with the same key.
TypedKey2ID(keyPrefix, ids) ==
    LET keys == TypedKeys(keyPrefix, ids)
        LastAt(k) == CHOOSE i \in DOMAIN ids :
                        keys[i] = k /\ \A j \in DOMAIN ids : keys[j] = k => j <= i
    IN  [k \in Range(keys) |-> ids[LastAt(k)]]

\* What the wrapper keeps during one MGet: the prefix, the IDs, key2ID, and what
\* the typed call returned: <<>> until it has, then <<err, map>>.
TypedFrame(keyPrefix, ids) ==
    Put(NoCall, "typed", <<keyPrefix, ids, TypedKey2ID(keyPrefix, ids), <<>> >>)

IsTyped(c) == "typed" \in DOMAIN c

\* A wrapper that hands its loader every ID of the call.
TypedLoaderIds_all(c) == c.typed[2]

\* loaderIds: the IDs of the keys the batch loader is called with.
TypedLoaderIds(c) == [i \in DOMAIN c.missingKeys |-> c.typed[3][c.missingKeys[i]]]

\* result[c.buildKey(keyPrefix, id)] = value for every entry the typed loader
\* returned.
TypedLoaded(keyPrefix, values) ==
    [k \in {buildKey(keyPrefix, id) : id \in DOMAIN values}
        |-> values[CHOOSE id \in DOMAIN values : buildKey(keyPrefix, id) = k]]

\* TypedCache.MGet is called: the keys are built and c.cache.MGet is called with
\* them, a fresh map and the loader wrapped.
StartTypedMGet(p, keyPrefix, ids, loader, opts) ==
    StartMGetIn(p, TypedFrame(keyPrefix, ids), TypedKeys(keyPrefix, ids),
                IF loader THEN WithBatchLoader(opts) ELSE opts,
                [t |-> "pointerToMap", m |-> EmptyMap, elem |-> "string"])

\* What the typed loader has for an ID.
TypedValue(id) == Str(id[1] \o "#" \o id[3] \o FormatInt(id[2]))

\* What a typed loader answers when called with ids: a value for each ID of a
\* subset of them, or an error.
TypedOutcomes(ids) ==
    {[err |-> nil, values |-> [id \in S |-> TypedValue(id)]] : S \in SUBSET Range(ids)}
        \cup {[err |-> ErrLoader, values |-> EmptyMap]}

\* The wrapped loader runs inside batchLoadAndCache.
TypedBatch_call(p) ==
    /\ IsTyped(call[p])
    /\ \E o \in TypedOutcomes(TypedLoaderIds(call[p])) :
          Batch_call(p, IF o.err # nil THEN EmptyMap
                        ELSE TypedLoaded(call[p].typed[1], o.values), o.err)

\* c.cache.MGet has returned: its error, or its map with every key replaced by
\* key2ID[key].
Typed_return(p) ==
    /\ pc[p] = "returned" /\ IsTyped(call[p]) /\ call[p].typed[4] = <<>>
    /\ LET c == call[p]
           key2ID == c.typed[3]
           result == [id \in {key2ID[k] : k \in DOMAIN c.mout}
                        |-> c.mout[CHOOSE k \in DOMAIN c.mout : key2ID[k] = id]]
       IN  SetCall(p, [c EXCEPT !.typed[4] = IF c.err # nil THEN <<c.err, EmptyMap>>
                                             ELSE <<nil, result>>])
    /\ UNCHANGED <<cache, memory, remote, sf, pc, ops, hist, loads>>

\* The caller has taken what the typed call returned.
LeaveTyped(p) == IsTyped(call[p]) /\ call[p].typed[4] # <<>> /\ Leave(p)

TypedPrefixes == {"u"}

\* The options the callers pass on: none, or absence caching.
TypedOptions ==
    {newGetOptions, WithCacheNotFound(newGetOptions, TRUE, CallCacheNotFoundTTL)}

\* The IDs of the callers: two numbers, and a string spelled like the first.
TypedIDs == {<<"int64", 1, "">>, <<"int64", 12, "">>, <<"string", 0, "1">>}

TypedIDLists ==
    {<<>>} \cup {<<x>> : x \in TypedIDs} \cup {<<x, y>> : x \in TypedIDs, y \in TypedIDs}

StepTyped(p) ==
    \/ MGet_memory(p) \/ MGet_remote(p) \/ MGet_writeback(p) \/ MGet_sf(p)
    \/ TypedBatch_call(p)
    \/ Batch_memory(p) \/ Batch_remote(p) \/ Batch_missMemory(p) \/ Batch_missRemote(p)
    \/ MGet_return(p)
    \/ Typed_return(p)

NextTyped ==
    \E p \in SeqProcs :
        \/ \E keyPrefix \in TypedPrefixes, ids \in TypedIDLists, loader \in BOOLEAN,
                 opts \in TypedOptions :
                StartTypedMGet(p, keyPrefix, ids, loader, opts)
        \/ StepTyped(p) \/ Sf_done(p) \/ LeaveTyped(p)

SpecTyped == InitConc /\ [][NextTyped]_vars

\* The typed call of p has returned to its caller.
TypedReturned(p) == IsTyped(call[p]) /\ call[p].typed[4] # <<>>

\* The key the typed call c has for the ID id.
KeyOfID(c, id) == buildKey(c.typed[1], id)

\* The typed call c translates between keys and IDs as the orchestrator's MGet
\* over its keys requires: the typed loader, if it ran, was called with the IDs of
\* the call, in call order, whose key no tier held; the typed call returns the
\* error of MGet or, keyed by ID, the entries MGet put into its map, nothing
\* else; and a value the typed loader returned for an ID is returned for that ID.
TypedAsOrchestrator(c) ==
    LET ids == c.typed[2]
        ret == c.typed[4]
    IN  /\ c.loaded # <<>>
           => /\ TypedLoaderIds(c)
                    = SelectSeq(ids, LAMBDA id : KeyOfID(c, id) \in StillMissing(c))
              /\ c.loaded[1] = TypedKeys(c.typed[1], TypedLoaderIds(c))
        /\ ret[1] = c.err
        /\ c.err = nil
           => /\ DOMAIN ret[2] = {id \in Range(ids) : KeyOfID(c, id) \in DOMAIN c.mout}
              /\ \A id \in DOMAIN ret[2] : ret[2][id] = c.mout[KeyOfID(c, id)]
              /\ \A id \in Range(ids) :
                    (c.loaded # <<>> /\ KeyOfID(c, id) \in DOMAIN c.answers.values)
                    => id \in DOMAIN ret[2] /\ ret[2][id] = TypedValue(id)

\* No two different IDs of the typed call c have the same key.
DistinctKeys(c) ==
    \A i, j \in DOMAIN c.typed[2] :
        c.typed[2][i] # c.typed[2][j] => c.keys[i] # c.keys[j]

\* C33 (with its condition): a typed MGet whose IDs have pairwise distinct keys is
\* the orchestrator's MGet over those keys, with loader arguments and results
\* translated between IDs and keys.
C33_TypedMGetOfDistinctKeys ==
    \A p \in Procs :
        (TypedReturned(p) /\ DistinctKeys(call[p])) => TypedAsOrchestrator(call[p])

\* C33 (as stated): the same, for every list of IDs.
C33_TypedMGetOfAnyIDs ==
    \A p \in Procs : TypedReturned(p) => TypedAsOrchestrator(call[p])

\* A typed MGet of the IDs 1 and 12, while the tiers hold the key of 12 only from
\* an earlier call, has called its loader with the ID 1 alone and returned the
\* entries of both IDs.
C33_Witness ==
    \E p \in Procs :
        /\ TypedReturned(p) /\ call[p].typed[4][1] = nil
        /\ call[p].typed[2] = << <<"int64", 1, "">>, <<"int64", 12, "">> >>
        /\ call[p].loaded = << <<"u:1">> >>
        /\ DOMAIN call[p].typed[4][2] = {<<"int64", 1, "">>, <<"int64", 12, "">>}
        /\ "u:12" \in DOMAIN call[p].preMemory \cup DOMAIN call[p].preRemote

\* C34: an MGet with an empty key list and valid options returns no error; it has
\* issued no call to L1 or L2 and invoked no batch loader, the tiers are as they
\* were, and the caller's map is as it was.
C34_EmptyKeyListNoOp ==
    \A p \in Procs :
        LET c == call[p]
        IN  (c.op = "MGet" /\ c.keys = <<>> /\ ValidTTLs(c.opts))
            => /\ pc[p] = "returned" /\ c.err = nil
               /\ c.io = <<>> /\ c.loaded = <<>>
               /\ memory = c.preMemory /\ remote = c.preRemote
               /\ c.mout = c.mtarget.m

\* An MGet with a batch loader, an empty key list and a map that holds an entry
\* has returned no error while L2 holds entries, and the map holds what it held.
C34_Witness ==
    \E p \in Procs :
        /\ ReturnedFrom(p, {"MGet"}) /\ call[p].keys = <<>> /\ call[p].err = nil
        /\ call[p].opts.batchLoader /\ remote # EmptyMap
        /\ call[p].mtarget.m # EmptyMap /\ call[p].mout = call[p].mtarget.m

(***************************************************************************)
(* Delete among readers: two goroutines issue Delete, Get and MGet calls    *)
(* without loaders on one key that L2 may hold.                            *)
(***************************************************************************)
StartDeleteRace(p) ==
    \/ StartDelete(p, "a")
    \/ StartGet(p, "a", newGetOptions, Str(""))
    \/ StartMGet(p, <<"a">>, newGetOptions,
                 [t |-> "pointerToMap", m |-> EmptyMap, elem |-> "string"])

StepDeleteRace(p) ==
    \/ Delete_memory(p) \/ Delete_remote(p)
    \/ Get_memory(p) \/ Get_remote(p) \/ Get_writeback(p)
    \/ MGet_memory(p) \/ MGet_remote(p) \/ MGet_writeback(p)

NextDeleteRace == \E p \in Procs : StartDeleteRace(p) \/ StepDeleteRace(p) \/ Leave(p)

SpecDeleteRace == Init /\ [][NextDeleteRace]_vars

\* C37: on a cache with both tiers, when a Delete has returned without error and
\* no call is in progress, none of the calls being a Set, an MSet or a call with a
\* loader, L1 holds no entry for the deleted key.
C37_DeleteNotUndone ==
    \A p \in Procs :
        (/\ cache.memory /\ cache.remote
         /\ ReturnedFrom(p, {"Delete"}) /\ call[p].err = nil
         /\ \A q \in Procs : pc[q] \in {"idle", "returned"})
        => call[p].key \notin DOMAIN memory

(***************************************************************************)
(* Concurrent writers: two goroutines issue Set and MSet calls on one key  *)
(* of a cache whose tiers start empty.                                     *)
(***************************************************************************)
StartSetRace(p) ==
    \E value \in {Str("v1"), Str("v2")} :
        \/ StartSet(p, "a", value, newSetOptions)
        \/ StartMSet(p, One("a", value), newSetOptions)

StepSetRace(p) == Set_memory(p) \/ Set_remote(p) \/ MSet_memory(p) \/ MSet_remote(p)

NextSetRace == \E p \in Procs : StartSetRace(p) \/ StepSetRace(p) \/ Leave(p)

SpecSetRace == InitConc /\ [][NextSetRace]_vars

\* C38: on a cache with both tiers, when the Set and MSet calls of both goroutines
\* on the key have returned without error, L1 having admitted what they wrote, L1
\* and L2 hold the same value for the key.
C38_ConcurrentSetsAgree ==
    (/\ cache.memory /\ cache.remote
     /\ \A p \in Procs : /\ ReturnedFrom(p, {"Set", "MSet"})
                         /\ call[p].err = nil /\ ~call[p].fault)
    => /\ "a" \in DOMAIN memory /\ "a" \in DOMAIN remote
       /\ memory["a"].data = remote["a"].data

\* C39: when a Set or MSet has returned no error, every configured tier holds, for
\* each key written, the bytes of the value written.
C39_WrittenInEveryTier ==
    \A p \in Procs :
        LET c == call[p]
            written == IF c.op = "Set" THEN One(c.key, Marshal(c.value).data) ELSE c.values
        IN  (ReturnedFrom(p, {"Set", "MSet"}) /\ c.err = nil)
            => \A k \in DOMAIN written :
                  /\ cache.memory => k \in DOMAIN memory /\ memory[k].data = written[k]
                  /\ cache.remote => k \in DOMAIN remote /\ remote[k].data = written[k]

\* C40: after an MGet with a key list that is not empty has returned no error, the
\* caller's map holds entries of requested keys only: what the map held before
\* the call is gone, whether the call resolved keys or none.
C40_TargetHoldsOnlyResolved ==
    \A p \in Procs :
        (ReturnedFrom(p, {"MGet"}) /\ call[p].err = nil /\ call[p].keys # <<>>)
        => DOMAIN call[p].mout \subseteq Range(call[p].keys)

====
